---- MODULE Spec2Model ----
(***************************************************************************)
(* Model of the post-processing fallback chain of the audio transcriber:   *)
(*   services/postProcessingService.ts  (generative client handle, getAI,  *)
(*       fixPunctuation with its Gemini -> Groq -> DeepSeek fallback, and  *)
(*       the optional formatText / improveStyle / extractKeyPoints /       *)
(*       translateText calls)                                              *)
(*   services/openaiService.ts          (chatCompletion and fetchJson with *)
(*       its Electron-IPC and browser-fetch transports)                    *)
(* JavaScript strings are TLA+ strings; `undefined` and a non-string value *)
(* are the markers UNDEF and NONSTRING.  Every await of the source is a    *)
(* separate action; the code between two awaits is one atomic step.        *)
(***************************************************************************)
EXTENDS Integers, Sequences, FiniteSets, TLC

VARIABLES
    ai,                 \* postProcessingService.ts: let ai: GoogleGenAI | null
    lsDeepseekKey,      \* localStorage.getItem('VITE_DEEPSEEK_API_KEY')
    envDeepseekKey,     \* import.meta.env.VITE_DEEPSEEK_API_KEY
    envOpenaiKey,       \* import.meta.env.VITE_OPENAI_API_KEY
    electronOpenaiKey,  \* window.electronEnv.OPENAI_API_KEY
    hasFetchApi,        \* window.electronAPI?.fetchApi is present
    fpPc,               \* position of the running fixPunctuation call
    fpText, fpMode, fpTone,   \* its arguments
    fpErr,              \* the value caught by its outer catch (tier 1)
    fpResult,           \* the ProcessingResult it resolved to
    chat,               \* the chatCompletion call in flight (tier 2 or 3)
    log,                \* history of provider events of the current call
    opPc,               \* the optional correction call in flight, or "idle"
    opResult,           \* the ProcessingResult of the last such call
    spPc,               \* position of the running checkSpelling call
    spArg, spLang,      \* the text and the language list it was called with
    spText,             \* its local variable text (reassigned by the truncation)
    spSent,             \* the requests it has submitted to the speller API
    spSeen,             \* what the speller API has answered them with
    spResult,           \* the SpellingResult it resolved to
    stPc,               \* position of the running spelling stage
    stText,             \* the text the stage was called with
    stResult,           \* the result the stage resolved to
    appPc,              \* App.tsx: position of the running handleTranscription
    appStatus,          \* the state status (RecorderStatus)
    appText,            \* the state text, shown to the user
    appError,           \* the state error
    appRaw,             \* result.text of the transcription
    appSaved,           \* the texts handed to saveRecording by the running call
    plPc,               \* the stage the running pipeline run awaits, or "idle"
    plConfig,           \* its PipelineConfiguration
    plOrig,             \* the text it was called with
    plWork,             \* its working text
    plStages,           \* stageResults, in the order the stages were attempted
    plResult,           \* the PipelineResult it resolved to
    hcPc,               \* openaiService.ts: position of the running checkOpenAIHealth
    hcLog,              \* the request it has sent and what fetch settled with
    hcResult,           \* the object it resolved to
    openaiHealth,       \* App.tsx: the state openaiHealth, shown by HealthDot
    uiEpoch,            \* how many recordings and re-transcriptions the user has started
    uiStarts,           \* the startRecording calls that await getUserMedia
    uiRecorders,        \* the MediaRecorders whose state is recording
    mediaRecorderRef,   \* App.tsx: mediaRecorderRef.current (0: null)
    uiOnStop,           \* the stopped recorders whose onstop handler has not run yet
    uiRuns,             \* the handleTranscription calls in flight, by their start
    db,                 \* the object store 'recordings': its record of each id, or Absent
    dbNextId,           \* the key generator of the store
    dbRemoved,          \* the ids a delete or clear request has removed
    dbCalls             \* the calls of the storage functions in flight

vars == << ai, lsDeepseekKey, envDeepseekKey, envOpenaiKey, electronOpenaiKey,
           hasFetchApi, fpPc, fpText, fpMode, fpTone, fpErr, fpResult, chat,
           log, opPc, opResult, spPc, spArg, spLang, spText, spSent, spSeen, spResult,
           stPc, stText, stResult, appPc, appStatus, appText, appError, appRaw,
           appSaved, plPc, plConfig, plOrig, plWork, plStages, plResult,
           hcPc, hcLog, hcResult, openaiHealth,
           uiEpoch, uiStarts, uiRecorders, mediaRecorderRef, uiOnStop, uiRuns,
           db, dbNextId, dbRemoved, dbCalls >>

----------------------------------------------------------------------------
(* JavaScript values *)

UNDEF     == "<undefined>"
NONSTRING == "<non-string>"

\* String.prototype.includes
Includes(s, sub) ==
    \E i \in 1..(Len(s) - Len(sub) + 1) : SubSeq(s, i, i + Len(sub) - 1) = sub

RECURSIVE TrimStart(_)
TrimStart(s) ==
    IF Len(s) > 0 /\ SubSeq(s, 1, 1) = " " THEN TrimStart(SubSeq(s, 2, Len(s))) ELSE s

RECURSIVE TrimEnd(_)
TrimEnd(s) ==
    IF Len(s) > 0 /\ SubSeq(s, Len(s), Len(s)) = " "
    THEN TrimEnd(SubSeq(s, 1, Len(s) - 1)) ELSE s

\* String.prototype.trim
Trim(s) == TrimEnd(TrimStart(s))

\* JavaScript truthiness of a value that is a string, undefined or an object
Truthy(v) == v # UNDEF /\ v # ""

----------------------------------------------------------------------------
(* Bounded input domains *)

\* Gemini API keys are numbered 1..NumKeys; 0 is the empty string.
NumKeys     == 2
GeminiKeys  == 0..NumKeys
\* the modes and tones the calls of this model are made with: the fallback
\* chain reads neither, they only select the prompt
Modes       == {"general", "corrector"}
Tones       == {"default", "friendly"}
InputTexts  == {"", " a b "}
\* result.text of a generateContent response
GeminiTexts == {UNDEF, " ", " A, b. ", " {} "}
\* choices[0].message.content of a chat completion response
ChatContents == {UNDEF, "", " ", " A; b! ", NONSTRING}
\* values a generateContent call can reject with
GeminiThrown ==
    { [isError |-> TRUE,  msg |-> "got status: 429 Too Many Requests"],
      [isError |-> TRUE,  msg |-> "You exceeded your current quota"],
      [isError |-> TRUE,  msg |-> "RESOURCE_EXHAUSTED"],
      [isError |-> TRUE,  msg |-> "Quota exceeded"],
      [isError |-> TRUE,  msg |-> "fetch failed"],
      [isError |-> FALSE, msg |-> "429"],
      [isError |-> FALSE, msg |-> "timeout"] }
\* what a transport can deliver: a parsed JSON body with the content of its
\* first choice, or a body that is not JSON
Bodies == {[kind |-> "json", content |-> c] : c \in ChatContents}
              \cup {[kind |-> "text", content |-> UNDEF]}
\* electronAPI.fetchApi: resolves {ok, status, text | error}, ok being
\* 200 <= status < 300 and status 0 a request that got no response, or the
\* invoke rejects
IpcOutcomes ==
    {[rejects |-> FALSE, ok |-> TRUE, status |-> 200, body |-> b] : b \in Bodies}
    \cup {[rejects |-> FALSE, ok |-> FALSE, status |-> st, body |-> b] :
              st \in {0, 500}, b \in Bodies}
    \cup {[rejects |-> TRUE, ok |-> FALSE, status |-> 0,
           body |-> [kind |-> "text", content |-> UNDEF]]}
\* fetch: resolves a Response, or rejects (network error)
FetchOutcomes == {res \in IpcOutcomes : res.rejects \/ res.status # 0}

NoClient == 0
NoErr    == [isError |-> FALSE, msg |-> UNDEF]
NoResult == [success |-> FALSE, text |-> UNDEF, keyPoints |-> UNDEF,
             error |-> UNDEF, provider |-> UNDEF]
NoChat   == [transport |-> "none", apiKey |-> ""]
Throw    == [kind |-> "throw", content |-> UNDEF]

\* a provider event of the running fixPunctuation call:
\*   ev "call"    : chatCompletion is invoked with apiKey key
\*   ev "request" : a request leaves through transport via ("sdk", "ipc", "fetch")
\*   ev "warn"    : fetchJson gives the IPC transport up; via is its reason
\*   ev "settled" : the provider call settled; via is "ok", "json", "text" or
\*                  "throw", content the message content of a JSON response
Event(tier, ev, via, key, content) ==
    [tier |-> tier, ev |-> ev, via |-> via, key |-> key, content |-> content]

----------------------------------------------------------------------------
(* services/postProcessingService.ts *)

\* The Error thrown by getAI
InitError ==
    [isError |-> TRUE,
     msg |-> "Gemini API client not initialized. Call setPostProcessingApiKey() first."]

\* mutant: the guard `if (apiKey)` is missing
setKeyResult_NoGuard(apiKey) == apiKey

\* setPostProcessingApiKey: the handle after the call
setKeyResult(apiKey) == IF apiKey # 0 THEN apiKey ELSE ai

\* mutant: getAI creates a client from a default key instead of throwing
getAI_Defaulting ==
    IF ai = NoClient
    THEN [throws |-> FALSE, client |-> 1,  aiAfter |-> 1]
    ELSE [throws |-> FALSE, client |-> ai, aiAfter |-> ai]

\* getAI: throws when the handle is null, else returns it; aiAfter is the
\* handle it leaves behind
getAI ==
    IF ai = NoClient
    THEN [throws |-> TRUE,  client |-> NoClient, aiAfter |-> ai]
    ELSE [throws |-> FALSE, client |-> ai,       aiAfter |-> ai]

\* const errorMsg = error instanceof Error ? error.message : String(error)
ErrorMsg(thrown) == thrown.msg

\* mutant: every tier-1 error opens the fallback chain
IsQuotaError_Always(errorMsg) == TRUE

\* the gate of the fallback chain
IsQuotaError(errorMsg) ==
    \/ Includes(errorMsg, "429")
    \/ Includes(errorMsg, "quota")
    \/ Includes(errorMsg, "RESOURCE_EXHAUSTED")

\* mutant: the message is read without the instanceof check
ResultError_Unchecked(thrown) == thrown.msg

\* error: error instanceof Error ? error.message : 'Unknown error'
ResultError(thrown) == IF thrown.isError THEN thrown.msg ELSE "Unknown error"

\* mutant: the failure result carries no text, as in the optional corrections
FinalFailure_NoText(text, thrown) ==
    [success |-> FALSE, text |-> UNDEF, keyPoints |-> UNDEF,
     error |-> ResultError(thrown), provider |-> UNDEF]

\* the return statement after the fallback chain
FinalFailure(text, thrown) ==
    [success |-> FALSE, text |-> text, keyPoints |-> UNDEF,
     error |-> ResultError(thrown), provider |-> UNDEF]

\* toneInstructions[tone] || '' : the directive sentence of a tone (the
\* sentences of the prompts are named by their English gloss)
ToneInstruction(tone) ==
    CASE tone = "friendly"     -> "use a warm, conversational, friendly tone"
      [] tone = "serious"      -> "use a strict, formal, serious tone"
      [] tone = "professional" -> "use a polished, business, professional style"
      [] OTHER                 -> ""

\* prompt: the single-turn content sent to generateContent
GeminiPrompt(text, mode, tone) ==
    IF mode = "general"
    THEN [task |-> "fix punctuation, keep all content", tone |-> "", text |-> text]
    ELSE [task |-> "fix punctuation and improve style, keep the key meaning",
          tone |-> ToneInstruction(tone), text |-> text]

\* the messages sent to chatCompletion: system PUNCTUATION_PROMPT, user text
ChatMessages(text, mode) ==
    IF mode = "general"
    THEN [task |-> "fix punctuation, keep all content", tone |-> "", text |-> text]
    ELSE [task |-> "fix punctuation and improve style, keep the key meaning",
          tone |-> "", text |-> text]

\* const processedText = result.text?.trim() || text
ProcessedText(resultText, text) ==
    IF resultText = UNDEF THEN text
    ELSE IF Truthy(Trim(resultText)) THEN Trim(resultText) ELSE text

GeminiSuccess(resultText, text) ==
    [success |-> TRUE, text |-> ProcessedText(resultText, text), keyPoints |-> UNDEF,
     error |-> UNDEF, provider |-> UNDEF]

\* mutant: the chat tiers return their text without the provider field
ChatSuccess_NoProvider(content, provider) ==
    [success |-> TRUE, text |-> Trim(content), keyPoints |-> UNDEF,
     error |-> UNDEF, provider |-> UNDEF]

ChatSuccess(content, provider) ==
    [success |-> TRUE, text |-> Trim(content), keyPoints |-> UNDEF,
     error |-> UNDEF, provider |-> provider]

\* the optional corrections: formatText, improveStyle, extractKeyPoints, translateText
CorrectionKinds == {"formatText", "improveStyle", "extractKeyPoints", "translateText"}

\* their catch block: { success: false, error: ... }, without a text
CorrectionFailure(thrown) ==
    [success |-> FALSE, text |-> UNDEF, keyPoints |-> UNDEF,
     error |-> ResultError(thrown), provider |-> UNDEF]

\* const processedText = result.text?.trim() || ''
TextOrEmpty(resultText) == IF resultText = UNDEF THEN "" ELSE Trim(resultText)

\* extractKeyPoints: the text handed to JSON.parse (the response texts of
\* this model hold no markdown fence, which the two replace calls would strip)
KeyPointsJson(resultText) ==
    IF resultText # UNDEF /\ Truthy(Trim(resultText)) THEN Trim(resultText) ELSE "{}"

\* JSON.parse succeeds; of the response texts of this model only "{}" is JSON
JsonParses(s) == s = "{}"

SyntaxError == [isError |-> TRUE, msg |-> "Unexpected token"]

\* the result of an optional correction whose generateContent call resolved
CorrectionResult(kind, resultText) ==
    IF kind = "extractKeyPoints"
    THEN IF JsonParses(KeyPointsJson(resultText))
         THEN [success |-> TRUE, text |-> UNDEF, keyPoints |-> KeyPointsJson(resultText),
               error |-> UNDEF, provider |-> UNDEF]
         ELSE CorrectionFailure(SyntaxError)
    ELSE [success |-> TRUE, text |-> TextOrEmpty(resultText), keyPoints |-> UNDEF,
          error |-> UNDEF, provider |-> UNDEF]

\* mutant: the environment is consulted before the local override
DeepSeekKey_EnvFirst ==
    IF envDeepseekKey # "" THEN envDeepseekKey
    ELSE IF envOpenaiKey # "" THEN envOpenaiKey
    ELSE lsDeepseekKey

\* localStorage.getItem('VITE_DEEPSEEK_API_KEY') || env.VITE_DEEPSEEK_API_KEY
\*     || env.VITE_OPENAI_API_KEY
DeepSeekKey ==
    IF lsDeepseekKey # "" THEN lsDeepseekKey
    ELSE IF envDeepseekKey # "" THEN envDeepseekKey
    ELSE envOpenaiKey

----------------------------------------------------------------------------
(* services/openaiService.ts *)

\* OPENAI_API_KEY = electronEnv.OPENAI_API_KEY || ... || _env.VITE_OPENAI_API_KEY || ...
OPENAI_API_KEY == IF electronOpenaiKey # "" THEN electronOpenaiKey ELSE envOpenaiKey

\* chatCompletion up to its first await: throws without a key, else fetchJson
\* sends the request through the first transport
chatCompletion(apiKey) ==
    IF apiKey = "" THEN "throw"
    ELSE IF hasFetchApi THEN "ipc" ELSE "fetch"

\* fetchJson, strategy 1: what the IPC result leads to; "fallthrough" is the
\* catch that continues to browser fetch
fetchJsonIpc(res) ==
    IF res.rejects \/ ~res.ok THEN [kind |-> "fallthrough", content |-> UNDEF]
    ELSE res.body

\* fetchJson, strategy 1: what the catch that continues to browser fetch has
\* caught: the API answered with an error status, or no answer came back
IpcWarning(res) ==
    IF res.rejects \/ res.status = 0 THEN "no response" ELSE "error response"

\* fetchJson, strategy 2: the value returned, or Throw
fetchJsonBrowser(res) ==
    IF res.rejects THEN Throw
    ELSE IF res.ok THEN res.body ELSE Throw

----------------------------------------------------------------------------
(* services/yandexSpellerService.ts *)

\* the ceiling of the speller API on the length of a text
MaxSpellerLen == 10000

Min(a, b) == IF a < b THEN a ELSE b
Max(a, b) == IF a > b THEN a ELSE b

\* String.prototype.substring(start, end): both indices are clamped to
\* 0..length and swapped when start > end
Substring(str, start, end) ==
    LET a  == Max(0, Min(start, Len(str)))
        b  == Max(0, Min(end, Len(str)))
        lo == Min(a, b)
        hi == Max(a, b)
    IN  IF lo = hi THEN "" ELSE SubSeq(str, lo + 1, hi)

\* String.prototype.substring(start)
SubstringFrom(str, start) == Substring(str, start, Len(str))

\* mutant: the guard is !text alone
IsBlank_NoTrim(text) == text = ""

\* the guard of the fast path: !text || text.trim().length === 0
IsBlank(text) == text = "" \/ Len(Trim(text)) = 0

\* mutant: the cut keeps one character less than the ceiling
Truncate_OffByOne(text) ==
    IF Len(text) > MaxSpellerLen THEN Substring(text, 0, MaxSpellerLen - 1) ELSE text

\* if (text.length > 10000) text = text.substring(0, 10000)
Truncate(text) ==
    IF Len(text) > MaxSpellerLen THEN Substring(text, 0, MaxSpellerLen) ELSE text

\* error.s && error.s.length > 0 : the record has a first candidate
HasCandidate(error) == error.hasS /\ Len(error.s) > 0

\* [...errors].sort((a, b) => b.pos - a.pos): Array.prototype.sort is stable,
\* so records of equal pos keep the order of the input array
RECURSIVE InsertDesc(_, _)
InsertDesc(e, sorted) ==
    IF sorted = << >> THEN << e >>
    ELSE IF Head(sorted).pos >= e.pos
         THEN << Head(sorted) >> \o InsertDesc(e, Tail(sorted))
         ELSE << e >> \o sorted

RECURSIVE SortDesc(_)
SortDesc(errors) ==
    IF errors = << >> THEN << >>
    ELSE InsertDesc(errors[Len(errors)], SortDesc(SubSeq(errors, 1, Len(errors) - 1)))

\* mutant: a record without a candidate has its span removed
Splice_NoCandidateCheck(result, error) ==
    Substring(result, 0, error.pos)
        \o (IF HasCandidate(error) THEN error.s[1] ELSE "")
        \o SubstringFrom(result, error.pos + error.len)

\* the body of the for loop: before + correction + after, or nothing
Splice(result, error) ==
    IF HasCandidate(error)
    THEN Substring(result, 0, error.pos) \o error.s[1]
             \o SubstringFrom(result, error.pos + error.len)
    ELSE result

RECURSIVE SpliceAll(_, _)
SpliceAll(result, sortedErrors) ==
    IF sortedErrors = << >> THEN result
    ELSE SpliceAll(Splice(result, Head(sortedErrors)), Tail(sortedErrors))

\* mutant: the comparator is a.pos - b.pos, the records are applied from the
\* start of the text to its end
applyCorrections_Ascending(text, errors) ==
    IF Len(errors) = 0 THEN text
    ELSE LET sorted == SortDesc(errors)
         IN  SpliceAll(text, [i \in 1..Len(sorted) |-> sorted[Len(sorted) + 1 - i]])

\* mutant: the records are applied in the order of the input array
applyCorrections_Unsorted(text, errors) ==
    IF Len(errors) = 0 THEN text ELSE SpliceAll(text, errors)

\* applyCorrections(text, errors), errors an array
applyCorrections(text, errors) ==
    IF Len(errors) = 0 THEN text ELSE SpliceAll(text, SortDesc(errors))

\* a text of n copies of str
RECURSIVE Repeat(_, _)
Repeat(str, n) ==
    IF n = 0 THEN ""
    ELSE IF n % 2 = 0 THEN LET h == Repeat(str, n \div 2) IN h \o h
    ELSE str \o Repeat(str, n - 1)

\* the texts checkSpelling is called with: empty, blank, short, of exactly
\* the ceiling's length, and one and two characters longer
SpellTexts ==
    { "", "   ", "abcd",
      Repeat("ab", MaxSpellerLen \div 2),
      Repeat("ab", MaxSpellerLen \div 2) \o "c",
      Repeat("ab", MaxSpellerLen \div 2) \o "cd" }
SpellLangs == { << "ru", "en" >>, << "en" >> }

\* lang.join(',')
RECURSIVE Join(_)
Join(lang) ==
    IF Len(lang) = 0 THEN ""
    ELSE IF Len(lang) = 1 THEN lang[1]
    ELSE lang[1] \o "," \o Join(Tail(lang))

\* the records of a speller response: [pos, len, s]; hasS is FALSE when the
\* field s is missing
MaxErrors  == 2
MaxPos     == 3
Candidates == { << >>, << "" >>, << "YZW", "Q" >> }
ErrorRecords ==
    { [pos |-> p, len |-> l, hasS |-> TRUE, s |-> c] :
          p \in 0..MaxPos, l \in 1..2, c \in Candidates }
      \cup { [pos |-> p, len |-> l, hasS |-> FALSE, s |-> << >>] :
                 p \in 0..MaxPos, l \in 1..2 }
ErrorArrays == UNION { [1..n -> ErrorRecords] : n \in 0..MaxErrors }
\* the short texts the merge is exercised on, with every array of records
MergeTexts == { "abcd", "a bc" }
\* the responses paired with the texts of SpellTexts: no record, or one record
\* for the first character
SpellResponses ==
    { errors \in ErrorArrays :
          Len(errors) <= 1 /\ \A i \in 1..Len(errors) : errors[i].pos = 0 /\ errors[i].len = 1 }

\* what fetch settles with: a rejection, or a Response with its ok flag
SpellFetchOutcomes ==
    { [rejects |-> TRUE, ok |-> FALSE], [rejects |-> FALSE, ok |-> FALSE],
      [rejects |-> FALSE, ok |-> TRUE] }

NoCount == -1
NoSpellResult ==
    [success |-> FALSE, text |-> UNDEF, errors |-> << >>, correctedCount |-> NoCount,
     error |-> UNDEF]

\* the return of the fast path and of the try block
SpellSuccess(text, errors) ==
    [success |-> TRUE, text |-> text, errors |-> errors, correctedCount |-> Len(errors),
     error |-> UNDEF]

\* mutant: the catch block reports the failure as an unchanged success
SpellFailure_AsSuccess(text, thrown) ==
    [success |-> TRUE, text |-> text, errors |-> << >>, correctedCount |-> 0,
     error |-> UNDEF]

\* the return of the catch block
SpellFailure(text, thrown) ==
    [success |-> FALSE, text |-> text, errors |-> << >>, correctedCount |-> NoCount,
     error |-> ResultError(thrown)]

FetchFailed   == [isError |-> TRUE, msg |-> "Failed to fetch"]
SpellerStatus == [isError |-> TRUE, msg |-> "Yandex.Speller API error: 500 Internal Server Error"]
NullLength    == [isError |-> TRUE, msg |-> "Cannot read properties of null (reading 'length')"]
NotIterable   == [isError |-> TRUE, msg |-> "errors is not iterable"]

\* the request body: text, lang, options, format
SpellRequest(text, lang) == [text |-> text, lang |-> Join(lang)]

\* the code after response.json() resolved with a value of the given kind
AfterJson(text, kind, errors) ==
    CASE kind = "rejects" -> SpellFailure(text, SyntaxError)
      [] kind = "null"    -> SpellFailure(text, NullLength)
      [] kind = "object"  -> SpellFailure(text, NotIterable)
      [] kind = "array"   -> SpellSuccess(applyCorrections(text, errors), errors)

----------------------------------------------------------------------------
(* fixPunctuation: the code between two awaits, as the control state it  *)
(* leads to: [pc, result, chat, log]                                     *)

Done(result, lg) == [pc |-> "done", result |-> result, chat |-> NoChat, log |-> lg]

InFlight(tier, transport, apiKey, lg) ==
    [pc |-> tier, result |-> NoResult,
     chat |-> [transport |-> transport, apiKey |-> apiKey],
     log |-> Append(lg, Event(tier, "request", transport, apiKey, UNDEF))]

\* an exception that escapes every catch rejects the promise of the call
Rejected(lg) == [pc |-> "rejected", result |-> NoResult, chat |-> NoChat, log |-> lg]

\* mutant: the result is built after the inner try, where .trim() can throw
AfterDeepSeek_TrimUncaught(text, thrown, ret, lg) ==
    IF ret.kind # "throw" /\ Truthy(ret.content)
    THEN IF ret.content = NONSTRING THEN Rejected(lg)
         ELSE Done(ChatSuccess(ret.content, "DeepSeek"), lg)
    ELSE Done(FinalFailure(text, thrown), lg)

\* the DeepSeek call has settled with ret
AfterDeepSeek(text, thrown, ret, lg) ==
    IF ret.kind # "throw" /\ Truthy(ret.content) /\ ret.content # NONSTRING
    THEN Done(ChatSuccess(ret.content, "DeepSeek"), lg)
    ELSE Done(FinalFailure(text, thrown), lg)

\* catch (fallbackErr): DeepSeek, if a key is configured
Tier2Catch(text, thrown, lg) ==
    LET dsKey == DeepSeekKey IN
    IF dsKey # ""
    THEN LET lg2 == Append(lg, Event("deepseek", "call", "", dsKey, UNDEF))
             t   == chatCompletion(dsKey)
         IN  IF t = "throw"
             THEN AfterDeepSeek(text, thrown, Throw,
                                Append(lg2, Event("deepseek", "settled", "throw", dsKey, UNDEF)))
             ELSE InFlight("deepseek", t, dsKey, lg2)
    ELSE Done(FinalFailure(text, thrown), lg)

\* mutant: the return of the Groq result is missing, the chain goes on
AfterGroq_NoReturn(text, thrown, ret, lg) == Tier2Catch(text, thrown, lg)

\* the Groq call has settled with ret
AfterGroq(text, thrown, ret, lg) ==
    IF ret.kind = "throw" THEN Tier2Catch(text, thrown, lg)
    ELSE IF Truthy(ret.content)
         THEN IF ret.content = NONSTRING
              THEN Tier2Catch(text, thrown, lg)   \* .trim() is not a function
              ELSE Done(ChatSuccess(ret.content, "Groq (Llama 3)"), lg)
         ELSE Done(FinalFailure(text, thrown), lg)

\* catch (error) of the outer try
Tier1Catch(text, thrown, lg) ==
    IF IsQuotaError(ErrorMsg(thrown))
    THEN LET lg2 == Append(lg, Event("groq", "call", "", OPENAI_API_KEY, UNDEF))
             t   == chatCompletion(OPENAI_API_KEY)
         IN  IF t = "throw"
             THEN AfterGroq(text, thrown, Throw,
                            Append(lg2, Event("groq", "settled", "throw", OPENAI_API_KEY, UNDEF)))
             ELSE InFlight("groq", t, OPENAI_API_KEY, lg2)
    ELSE Done(FinalFailure(text, thrown), lg)

\* mutant: a failed DeepSeek call starts the chain again at Groq
AfterChat_Retry(tier, text, thrown, ret, lg) ==
    IF tier = "groq" THEN AfterGroq(text, thrown, ret, lg)
    ELSE IF AfterDeepSeek(text, thrown, ret, lg).result.success
         THEN AfterDeepSeek(text, thrown, ret, lg)
         ELSE Tier1Catch(text, thrown, lg)

\* the continuation of fixPunctuation after the chatCompletion of tier settled
AfterChat(tier, text, thrown, ret, lg) ==
    IF tier = "groq" THEN AfterGroq(text, thrown, ret, lg)
    ELSE AfterDeepSeek(text, thrown, ret, lg)

----------------------------------------------------------------------------
(* Initial state: the module is loaded, no client, nothing in flight.    *)
(* The key configuration is fixed for the lifetime of the page.          *)
(* The model runs one correction call at a time: the calls share only    *)
(* the handle ai, which they read once, before their first await;        *)
(* setPostProcessingApiKey runs between any two steps.                   *)

\* the App is mounted: nothing recorded, nothing shown
AppIdle ==
    /\ appPc = "idle"
    /\ appStatus = "IDLE"
    /\ appText = ""
    /\ appError = UNDEF
    /\ appRaw = UNDEF
    /\ appSaved = << >>

\* no spelling check and no spelling stage is running
SpellIdle ==
    /\ spPc = "idle"
    /\ spArg = ""
    /\ spLang = << >>
    /\ spText = ""
    /\ spSent = << >>
    /\ spSeen = << >>
    /\ spResult = NoSpellResult
    /\ stPc = "idle"
    /\ stText = ""
    /\ stResult = NoResult

\* the spelling check and the stage return to idle
SpellReset ==
    /\ spPc' = "idle"
    /\ spArg' = ""
    /\ spLang' = << >>
    /\ spText' = ""
    /\ spSent' = << >>
    /\ spSeen' = << >>
    /\ spResult' = NoSpellResult
    /\ stPc' = "idle"
    /\ stText' = ""
    /\ stResult' = NoResult

\* PipelineConfiguration: the defaults of its three stage switches
DefaultConfig ==
    [enableSpelling |-> TRUE, enableGrammar |-> FALSE, enablePunctuation |-> TRUE]

\* no PipelineResult yet
NoPipeResult ==
    [succeeded |-> FALSE, originalText |-> UNDEF, finalText |-> UNDEF,
     stageResults |-> << >>, errorMessage |-> UNDEF]

\* no pipeline run is in flight
PipeIdle ==
    /\ plPc = "idle"
    /\ plConfig = DefaultConfig
    /\ plOrig = ""
    /\ plWork = ""
    /\ plStages = << >>
    /\ plResult = NoPipeResult

\* the code field of a health result that has none
NoCode == -1

\* no health result yet
NoHealth == [status |-> UNDEF, code |-> NoCode, detail |-> UNDEF]

\* the App is mounted, its health check has not started
HealthIdle ==
    /\ hcPc = "idle"
    /\ hcLog = << >>
    /\ hcResult = NoHealth
    /\ openaiHealth = NoHealth

\* the number of recordings and re-transcriptions one user session starts
MaxStarts == 2
Epochs == 1..MaxStarts

\* no handleTranscription call for this start
NoRun == [pc |-> "none", result |-> NoResult]

\* nothing was recorded or re-transcribed yet
UiIdle ==
    /\ uiEpoch = 0
    /\ uiStarts = {}
    /\ uiRecorders = {}
    /\ mediaRecorderRef = 0
    /\ uiOnStop = {}
    /\ uiRuns = [e \in Epochs |-> NoRun]

\* the ids the key generator hands out, and the calls of updateRecording,
\* deleteRecording and clearAllRecordings that are made
MaxIds == 2
MaxCalls == 2
Ids == 1..MaxIds
Calls == 1..MaxCalls

\* the id field of an object that has none
NoId == 0

\* no record under a key; a RecordingMetadata is modelled by its id, its text
\* and its mode
Absent == [id |-> NoId, text |-> UNDEF, mode |-> UNDEF]

\* call c has not been made
NoCall == [op |-> "none", pc |-> "none", id |-> NoId, updates |-> Absent,
           existing |-> Absent, error |-> UNDEF]

\* the store is empty and no storage call is in flight
StoreIdle ==
    /\ db = [i \in Ids |-> Absent]
    /\ dbNextId = 1
    /\ dbRemoved = {}
    /\ dbCalls = [c \in Calls |-> NoCall]

Init ==
    /\ ai = NoClient
    /\ lsDeepseekKey \in {"", "ds-local"}
    /\ envDeepseekKey \in {"", "ds-env"}
    /\ envOpenaiKey \in {"", "openai-env"}
    /\ electronOpenaiKey \in {"", "openai-electron"}
    /\ hasFetchApi \in BOOLEAN
    /\ fpPc = "idle"
    /\ fpText = ""
    /\ fpMode = "general"
    /\ fpTone = "default"
    /\ fpErr = NoErr
    /\ fpResult = NoResult
    /\ chat = NoChat
    /\ log = << >>
    /\ opPc = "idle"
    /\ opResult = NoResult
    /\ SpellIdle
    /\ AppIdle
    /\ PipeIdle
    /\ StoreIdle
    /\ UiIdle
    /\ HealthIdle

Config == << lsDeepseekKey, envDeepseekKey, envOpenaiKey, electronOpenaiKey, hasFetchApi >>
FpArgs == << fpText, fpMode, fpTone >>
OpVars == << opPc, opResult >>
FpVars == << fpPc, fpText, fpMode, fpTone, fpErr, fpResult, chat, log >>
SpellVars == << spPc, spArg, spLang, spText, spSent, spSeen, spResult >>
StageVars == << stPc, stText, stResult >>
AppVars == << appPc, appStatus, appText, appError, appRaw, appSaved >>
PipeVars == << plPc, plConfig, plOrig, plWork, plStages, plResult >>
HealthVars == << hcPc, hcLog, hcResult, openaiHealth >>
UiVars == << uiEpoch, uiStarts, uiRecorders, mediaRecorderRef, uiOnStop, uiRuns >>
StoreVars == << db, dbNextId, dbRemoved, dbCalls >>

\* the control state r becomes the state of the fixPunctuation call
Goto(r) ==
    /\ fpPc' = r.pc
    /\ fpResult' = r.result
    /\ chat' = r.chat
    /\ log' = r.log

----------------------------------------------------------------------------
(* Actions *)

\* setPostProcessingApiKey(apiKey)
setPostProcessingApiKey(apiKey) ==
    /\ ai' = setKeyResult(apiKey)
    /\ UNCHANGED << SpellVars, StageVars, AppVars, Config, StoreVars, UiVars, HealthVars, PipeVars, fpPc, FpArgs, fpErr, fpResult, chat, log, OpVars >>

\* fixPunctuation(text, mode, tone) up to its first await
fixPunctuationCall(text, mode, tone) ==
    /\ fpPc = "idle"
    /\ opPc = "idle"
    /\ fpText' = text
    /\ fpMode' = mode
    /\ fpTone' = tone
    /\ LET g == getAI IN
       /\ ai' = g.aiAfter
       /\ IF g.throws
          THEN /\ fpErr' = InitError
               /\ Goto(Tier1Catch(text, InitError, << >>))
          ELSE /\ fpErr' = NoErr
               /\ Goto([pc |-> "gemini", result |-> NoResult, chat |-> NoChat,
                        log |-> << Event("gemini", "request", "sdk", "", UNDEF) >>])

\* a caller other than handleTranscription calls fixPunctuation
fixPunctuation(text, mode, tone) ==
    /\ fixPunctuationCall(text, mode, tone)
    /\ UNCHANGED << SpellVars, StageVars, AppVars, Config, StoreVars, UiVars, HealthVars, PipeVars, OpVars >>

\* client.models.generateContent resolves
GeminiResolve(resultText) ==
    /\ fpPc = "gemini"
    /\ Goto(Done(GeminiSuccess(resultText, fpText),
                 Append(log, Event("gemini", "settled", "ok", "", resultText))))
    /\ UNCHANGED << SpellVars, StageVars, AppVars, ai, Config, StoreVars, UiVars, HealthVars, PipeVars, FpArgs, fpErr, OpVars >>

\* client.models.generateContent rejects
GeminiReject(thrown) ==
    /\ fpPc = "gemini"
    /\ fpErr' = thrown
    /\ Goto(Tier1Catch(fpText, thrown, Append(log, Event("gemini", "settled", "throw", "", UNDEF))))
    /\ UNCHANGED << SpellVars, StageVars, AppVars, ai, Config, StoreVars, UiVars, HealthVars, PipeVars, FpArgs, OpVars >>

\* electronAPI.fetchApi settles for the chatCompletion in flight
IpcSettle(res) ==
    /\ fpPc \in {"groq", "deepseek"}
    /\ chat.transport = "ipc"
    /\ LET ret == fetchJsonIpc(res) IN
       IF ret.kind = "fallthrough"
       THEN Goto(InFlight(fpPc, "fetch", chat.apiKey,
                          Append(log, Event(fpPc, "warn", IpcWarning(res), chat.apiKey, UNDEF))))
       ELSE Goto(AfterChat(fpPc, fpText, fpErr, ret,
                           Append(log, Event(fpPc, "settled", ret.kind, chat.apiKey, ret.content))))
    /\ UNCHANGED << SpellVars, StageVars, AppVars, ai, Config, StoreVars, UiVars, HealthVars, PipeVars, FpArgs, fpErr, OpVars >>

\* browser fetch settles for the chatCompletion in flight
FetchSettle(res) ==
    /\ fpPc \in {"groq", "deepseek"}
    /\ chat.transport = "fetch"
    /\ LET ret == fetchJsonBrowser(res) IN
       Goto(AfterChat(fpPc, fpText, fpErr, ret,
                      Append(log, Event(fpPc, "settled", ret.kind, chat.apiKey, ret.content))))
    /\ UNCHANGED << SpellVars, StageVars, AppVars, ai, Config, StoreVars, UiVars, HealthVars, PipeVars, FpArgs, fpErr, OpVars >>

\* the promise of the call is consumed; the next call may start
FpReset ==
    /\ fpPc' = "idle"
    /\ fpText' = ""
    /\ fpMode' = "general"
    /\ fpTone' = "default"
    /\ fpErr' = NoErr
    /\ fpResult' = NoResult
    /\ chat' = NoChat
    /\ log' = << >>

\* the caller has read the result; the next call may start
FixPunctuationReturn ==
    /\ fpPc = "done"
    /\ appPc = "idle"
    /\ FpReset
    /\ UNCHANGED << SpellVars, StageVars, AppVars, ai, Config, StoreVars, UiVars, HealthVars, PipeVars, OpVars >>

\* formatText / improveStyle / extractKeyPoints / translateText up to the first await
CorrectionCall(kind) ==
    /\ opPc = "idle"
    /\ fpPc = "idle"
    /\ LET g == getAI IN
       /\ ai' = g.aiAfter
       /\ IF g.throws
          THEN /\ opPc' = "done"
               /\ opResult' = CorrectionFailure(InitError)
          ELSE /\ opPc' = kind
               /\ opResult' = NoResult
    /\ UNCHANGED << SpellVars, StageVars, AppVars, Config, StoreVars, UiVars, HealthVars, PipeVars, fpPc, FpArgs, fpErr, fpResult, chat, log >>

\* its generateContent call resolves
CorrectionResolve(resultText) ==
    /\ opPc \in CorrectionKinds
    /\ opPc' = "done"
    /\ opResult' = CorrectionResult(opPc, resultText)
    /\ UNCHANGED << SpellVars, StageVars, AppVars, ai, Config, StoreVars, UiVars, HealthVars, PipeVars, fpPc, FpArgs, fpErr, fpResult, chat, log >>

\* its generateContent call rejects
CorrectionReject(thrown) ==
    /\ opPc \in CorrectionKinds
    /\ opPc' = "done"
    /\ opResult' = CorrectionFailure(thrown)
    /\ UNCHANGED << SpellVars, StageVars, AppVars, ai, Config, StoreVars, UiVars, HealthVars, PipeVars, fpPc, FpArgs, fpErr, fpResult, chat, log >>

\* the caller has read the result
CorrectionReturn ==
    /\ opPc = "done"
    /\ opPc' = "idle"
    /\ opResult' = NoResult
    /\ UNCHANGED << SpellVars, StageVars, AppVars, ai, Config, StoreVars, UiVars, HealthVars, PipeVars, fpPc, FpArgs, fpErr, fpResult, chat, log >>

----------------------------------------------------------------------------
(* checkSpelling, and the spelling stage that calls it *)

\* checkSpelling(text, lang) up to its first await
checkSpellingCall(text, lang) ==
    /\ spArg' = text
    /\ spLang' = lang
    /\ IF IsBlank(text)
       THEN /\ spPc' = "done"
            /\ spText' = text
            /\ spSent' = spSent
            /\ spResult' = SpellSuccess(text, << >>)
       ELSE /\ spPc' = "fetch"
            /\ spText' = Truncate(text)
            /\ spSent' = Append(spSent, SpellRequest(Truncate(text), lang))
            /\ spResult' = NoSpellResult
    /\ spSeen' = spSeen

\* a caller other than the stage calls checkSpelling
checkSpelling(text, lang) ==
    /\ spPc = "idle" /\ stPc = "idle"
    /\ checkSpellingCall(text, lang)
    /\ UNCHANGED << ai, Config, StoreVars, UiVars, HealthVars, PipeVars, FpVars, OpVars, AppVars, StageVars >>

\* fetch settles: a rejection and a response that is not ok end in the catch block
SpellFetchSettle(res) ==
    /\ spPc = "fetch"
    /\ IF res.rejects
       THEN /\ spPc' = "done" /\ spResult' = SpellFailure(spText, FetchFailed)
            /\ spSeen' = Append(spSeen, "network error")
       ELSE IF ~res.ok
       THEN /\ spPc' = "done" /\ spResult' = SpellFailure(spText, SpellerStatus)
            /\ spSeen' = Append(spSeen, "status")
       ELSE /\ spPc' = "json" /\ spResult' = spResult
            /\ spSeen' = spSeen
    /\ UNCHANGED << ai, Config, StoreVars, UiVars, HealthVars, PipeVars, FpVars, OpVars, AppVars, StageVars, spArg, spLang, spText, spSent >>

\* the values response.json() settles with that are no array
NonArrayKinds == { "rejects", "null", "object" }

\* response.json() settles
SpellJsonSettle(kind, errors) ==
    /\ spPc = "json"
    /\ spPc' = "done"
    /\ spResult' = AfterJson(spText, kind, errors)
    /\ spSeen' = Append(spSeen, kind)
    /\ UNCHANGED << ai, Config, StoreVars, UiVars, HealthVars, PipeVars, FpVars, OpVars, AppVars, StageVars, spArg, spLang, spText, spSent >>

\* response.json() resolves with one of the given arrays
SpellJsonArray(responses) ==
    /\ spPc = "json"
    /\ \E errors \in responses : SpellJsonSettle("array", errors)

\* the caller has read the result of checkSpelling
SpellReturn ==
    /\ spPc = "done" /\ stPc = "idle"
    /\ SpellReset
    /\ UNCHANGED << ai, Config, StoreVars, UiVars, HealthVars, PipeVars, FpVars, OpVars, AppVars >>

\* the provider labels of the spelling stage
SpellerLabel  == "Yandex.Speller"
FallbackLabel == "Gemini (Spelling Fallback)"

\* the result of the stage
StageResult(success, text, error, provider) ==
    [success |-> success, text |-> text, keyPoints |-> UNDEF, error |-> error,
     provider |-> provider]

\* correctSpelling(text, languages): the stage calls the spelling adapter
correctSpelling(text, lang) ==
    /\ spPc = "idle" /\ stPc = "idle"
    /\ stPc' = "primary"
    /\ stText' = text
    /\ stResult' = NoResult
    /\ checkSpellingCall(text, lang)
    /\ UNCHANGED << ai, Config, StoreVars, UiVars, HealthVars, PipeVars, FpVars, OpVars, AppVars >>

\* the adapter call has returned: its text on success, else the fallback to
\* the generative adapter, whose uninitialized-client error propagates
StagePrimaryDone ==
    /\ stPc = "primary" /\ spPc = "done"
    /\ IF spResult.success
       THEN /\ stPc' = "done"
            /\ stResult' = StageResult(TRUE, spResult.text, UNDEF, SpellerLabel)
       ELSE IF getAI.throws
       THEN /\ stPc' = "rejected"
            /\ stResult' = StageResult(FALSE, UNDEF, InitError.msg, UNDEF)
       ELSE /\ stPc' = "fallback"
            /\ stResult' = NoResult
    /\ UNCHANGED << ai, Config, StoreVars, UiVars, HealthVars, PipeVars, FpVars, OpVars, AppVars, SpellVars, stText >>

\* the generateContent call of the fallback resolves
StageFallbackResolve(resultText) ==
    /\ stPc = "fallback"
    /\ stPc' = "done"
    /\ stResult' = StageResult(TRUE, ProcessedText(resultText, stText), UNDEF, FallbackLabel)
    /\ UNCHANGED << ai, Config, StoreVars, UiVars, HealthVars, PipeVars, FpVars, OpVars, AppVars, SpellVars, stText >>

\* the generateContent call of the fallback rejects: both paths have failed
StageFallbackReject(thrown) ==
    /\ stPc = "fallback"
    /\ stPc' = "done"
    /\ stResult' = StageResult(FALSE, stText, ResultError(thrown), UNDEF)
    /\ UNCHANGED << ai, Config, StoreVars, UiVars, HealthVars, PipeVars, FpVars, OpVars, AppVars, SpellVars, stText >>

\* the caller has read the result of the stage
StageReturn ==
    /\ stPc \in {"done", "rejected"}
    /\ SpellReset
    /\ UNCHANGED << ai, Config, StoreVars, UiVars, HealthVars, PipeVars, FpVars, OpVars, AppVars >>

\* the configuration setter, as used while the spelling stage runs
SpellConfigure(apiKey) ==
    /\ ai' = setKeyResult(apiKey)
    /\ UNCHANGED << Config, StoreVars, UiVars, HealthVars, PipeVars, FpVars, OpVars, AppVars, SpellVars, StageVars >>

SpellInit ==
    /\ ai = NoClient
    /\ lsDeepseekKey = ""
    /\ envDeepseekKey = ""
    /\ envOpenaiKey = ""
    /\ electronOpenaiKey = ""
    /\ hasFetchApi = FALSE
    /\ fpPc = "idle"
    /\ fpText = ""
    /\ fpMode = "general"
    /\ fpTone = "default"
    /\ fpErr = NoErr
    /\ fpResult = NoResult
    /\ chat = NoChat
    /\ log = << >>
    /\ opPc = "idle"
    /\ opResult = NoResult
    /\ SpellIdle
    /\ AppIdle
    /\ PipeIdle
    /\ StoreIdle
    /\ UiIdle
    /\ HealthIdle

SpellNext ==
    \/ \E k \in GeminiKeys : SpellConfigure(k)
    \/ \E t \in SpellTexts, l \in SpellLangs : checkSpelling(t, l)
    \/ \E res \in SpellFetchOutcomes : SpellFetchSettle(res)
    \/ \E kind \in NonArrayKinds : SpellJsonSettle(kind, << >>)
    \/ SpellJsonArray(SpellResponses)
    \/ SpellReturn
    \/ \E t \in SpellTexts, l \in SpellLangs : correctSpelling(t, l)
    \/ StagePrimaryDone
    \/ \E rt \in GeminiTexts : StageFallbackResolve(rt)
    \/ \E th \in GeminiThrown : StageFallbackReject(th)
    \/ StageReturn

SpellSpec == SpellInit /\ [][SpellNext]_vars

\* checkSpelling on short texts, the speller answering with any array of records
MergeNext ==
    \/ \E t \in MergeTexts : checkSpelling(t, << "ru", "en" >>)
    \/ \E res \in SpellFetchOutcomes : SpellFetchSettle(res)
    \/ \E kind \in NonArrayKinds : SpellJsonSettle(kind, << >>)
    \/ SpellJsonArray(ErrorArrays)
    \/ SpellReturn

MergeSpec == SpellInit /\ [][MergeNext]_vars

----------------------------------------------------------------------------
(* App.tsx: handleTranscription and the background punctuation run *)

\* what transcribeAudio can reject with
TranscribeThrown ==
    { [isError |-> TRUE,  msg |-> "Transcription failed"],
      [isError |-> FALSE, msg |-> "aborted"] }

\* err instanceof Error ? err.message : <the default message>
AppErrorMessage(thrown) ==
    IF thrown.isError THEN thrown.msg ELSE "an unknown error occurred"

\* mutant: the text of a successful result is used without the test that it
\* is non-empty
UsePunctuated_SuccessOnly(result) == result.success

\* if (punctuationResult.success && punctuationResult.text)
UsePunctuated(result) == result.success /\ Truthy(result.text)

\* mutant: the branches that keep the raw text do not save
SaveOriginal_Skipped(saved, raw) == saved

\* saveRecording(audioBlob, result.text, ...) of the else branch and of the
\* catch callback
SaveOriginal(saved, raw) == Append(saved, raw)

\* the mount effect hands the stored key to setPostProcessingApiKey
AppConfigure(apiKey) ==
    /\ ai' = setKeyResult(apiKey)
    /\ UNCHANGED << Config, StoreVars, UiVars, HealthVars, PipeVars, FpVars, OpVars, SpellVars, StageVars, AppVars >>

\* handleTranscription up to its first await: transcribeAudio is called
handleTranscription ==
    /\ appPc = "idle" /\ fpPc = "idle"
    /\ appPc' = "transcribing"
    /\ appStatus' = "PROCESSING"
    /\ appRaw' = UNDEF
    /\ appSaved' = << >>
    /\ UNCHANGED << ai, Config, StoreVars, UiVars, HealthVars, PipeVars, FpVars, OpVars, SpellVars, StageVars, appText, appError >>

\* transcribeAudio resolves: the raw text is shown and copied
TranscribeResolve(raw) ==
    /\ appPc = "transcribing"
    /\ appPc' = "copying raw"
    /\ appRaw' = raw
    /\ appText' = raw
    /\ appStatus' = "COMPLETED"
    /\ UNCHANGED << ai, Config, StoreVars, UiVars, HealthVars, PipeVars, FpVars, OpVars, SpellVars, StageVars, appError, appSaved >>

\* transcribeAudio rejects: the catch of handleTranscription
TranscribeReject(thrown) ==
    /\ appPc = "transcribing"
    /\ appPc' = "idle"
    /\ appError' = AppErrorMessage(thrown)
    /\ appStatus' = "IDLE"
    /\ UNCHANGED << ai, Config, StoreVars, UiVars, HealthVars, PipeVars, FpVars, OpVars, SpellVars, StageVars, appText, appRaw,
                    appSaved >>

\* copyToClipboard(result.text) has settled (it never rejects): fixPunctuation
\* is called with the raw text, the mode and the active tone
RawCopySettle(mode, tone) ==
    /\ appPc = "copying raw"
    /\ appPc' = "punctuating"
    /\ fixPunctuationCall(appRaw, mode, tone)
    /\ UNCHANGED << Config, StoreVars, UiVars, HealthVars, PipeVars, OpVars, SpellVars, StageVars, appStatus, appText, appError,
                    appRaw, appSaved >>

\* the promise of fixPunctuation has settled: the then callback up to its
\* first await, or the catch callback when the promise rejected
PunctuationSettled ==
    /\ appPc = "punctuating"
    /\ fpPc \in {"done", "rejected"}
    /\ IF fpPc = "done" /\ UsePunctuated(fpResult)
       THEN /\ appText' = fpResult.text
            /\ appSaved' = appSaved
            /\ appPc' = "copying"
       ELSE /\ appText' = appText
            /\ appSaved' = SaveOriginal(appSaved, appRaw)
            /\ appPc' = "saving"
    /\ UNCHANGED << ai, Config, StoreVars, UiVars, HealthVars, PipeVars, FpVars, OpVars, SpellVars, StageVars, appStatus, appError,
                    appRaw >>

\* copyToClipboard(punctuationResult.text) has settled: the final version is saved
PunctuatedCopySettle ==
    /\ appPc = "copying"
    /\ appPc' = "saving"
    /\ appSaved' = Append(appSaved, fpResult.text)
    /\ UNCHANGED << ai, Config, StoreVars, UiVars, HealthVars, PipeVars, FpVars, OpVars, SpellVars, StageVars, appStatus, appText,
                    appError, appRaw >>

\* saveRecording has settled; a failure is only logged
SaveSettle(ok) ==
    /\ appPc = "saving"
    /\ appPc' = "idle"
    /\ FpReset
    /\ UNCHANGED << ai, Config, StoreVars, UiVars, HealthVars, PipeVars, OpVars, SpellVars, StageVars, appStatus, appText, appError,
                    appRaw, appSaved >>

AppInit ==
    /\ ai = NoClient
    /\ lsDeepseekKey = ""
    /\ envDeepseekKey = ""
    /\ envOpenaiKey = "openai-env"
    /\ electronOpenaiKey = ""
    /\ hasFetchApi = TRUE
    /\ fpPc = "idle"
    /\ fpText = ""
    /\ fpMode = "general"
    /\ fpTone = "default"
    /\ fpErr = NoErr
    /\ fpResult = NoResult
    /\ chat = NoChat
    /\ log = << >>
    /\ opPc = "idle"
    /\ opResult = NoResult
    /\ SpellIdle
    /\ AppIdle
    /\ PipeIdle
    /\ StoreIdle
    /\ UiIdle
    /\ HealthIdle

AppNext ==
    \/ \E k \in GeminiKeys : AppConfigure(k)
    \/ handleTranscription
    \/ \E raw \in InputTexts : TranscribeResolve(raw)
    \/ \E th \in TranscribeThrown : TranscribeReject(th)
    \/ \E m \in Modes, tn \in Tones : RawCopySettle(m, tn)
    \/ \E rt \in GeminiTexts : GeminiResolve(rt)
    \/ \E th \in GeminiThrown : GeminiReject(th)
    \/ \E res \in IpcOutcomes : IpcSettle(res)
    \/ \E res \in FetchOutcomes : FetchSettle(res)
    \/ PunctuationSettled
    \/ PunctuatedCopySettle
    \/ \E ok \in BOOLEAN : SaveSettle(ok)

AppSpec == AppInit /\ [][AppNext]_vars

----------------------------------------------------------------------------
(* The pipeline orchestrator run(text, config).  The stages settle with   *)
(* any outcome their contracts allow; a corrected text is the stage's     *)
(* input followed by the mark of the stage, so that the order and the     *)
(* composition of the stages can be read off the final text.              *)

\* the stages in the order of the orchestrator
StageNames == << "spelling", "grammar", "punctuation" >>

PipeConfigs ==
    [enableSpelling : BOOLEAN, enableGrammar : BOOLEAN, enablePunctuation : BOOLEAN]

PipeTexts == { "", "ab" }

\* the switch of stage number i in the configuration
StageEnabled(config, i) ==
    CASE i = 1 -> config.enableSpelling
      [] i = 2 -> config.enableGrammar
      [] i = 3 -> config.enablePunctuation

StageIndex(stage) == CHOOSE i \in 1..3 : StageNames[i] = stage

StageMark(stage) ==
    CASE stage = "spelling" -> "s" [] stage = "grammar" -> "g" [] stage = "punctuation" -> "p"

\* the results a stage can return: a corrected text, success with an empty
\* text, or a failure result carrying its input
StageOutcomeKinds == { "corrected", "empty", "failed" }

\* the exception that can escape a stage
StageThrown == [isError |-> TRUE, msg |-> "AI client not initialized"]

StageOutcome(stage, input, kind) ==
    CASE kind = "corrected" -> StageResult(TRUE, input \o StageMark(stage), UNDEF, stage)
      [] kind = "empty"     -> StageResult(TRUE, "", UNDEF, stage)
      [] kind = "failed"    -> StageResult(FALSE, input, "provider failed", UNDEF)

\* the first enabled stage after stage number i, or "done"
FirstEnabled(config, i) ==
    IF \E j \in (i + 1)..3 : StageEnabled(config, j)
    THEN StageNames[CHOOSE j \in (i + 1)..3 :
                        /\ StageEnabled(config, j)
                        /\ \A k \in (i + 1)..(j - 1) : ~StageEnabled(config, k)]
    ELSE "done"

\* mutant: the run ends after the grammar stage
NextStage_StopAfterGrammar(config, i) ==
    IF i = 2 THEN "done" ELSE FirstEnabled(config, i)

\* the stage the run goes on to after stage number i (0: at the start)
NextStage(config, i) == FirstEnabled(config, i)

\* if (StageResult.succeeded && text is non-empty) the working text is updated
WorkingText(work, result) ==
    IF result.success /\ Truthy(result.text) THEN result.text ELSE work

\* the PipelineResult of a run whose stages have all returned
PipeDone(original, work, stages) ==
    [succeeded |-> TRUE, originalText |-> original, finalText |-> work,
     stageResults |-> stages, errorMessage |-> UNDEF]

\* the top-level catch: the original text, success = false
PipeCaught(original, stages, thrown) ==
    [succeeded |-> FALSE, originalText |-> original, finalText |-> original,
     stageResults |-> stages, errorMessage |-> thrown.msg]

\* the run goes on to stage `next`, or ends when there is none
PipeGoto(next, original, work, stages) ==
    /\ plPc' = next
    /\ plWork' = work
    /\ plStages' = stages
    /\ plResult' = IF next = "done" THEN PipeDone(original, work, stages) ELSE NoPipeResult

\* run(text, config) up to the await of its first enabled stage
run(text, config) ==
    /\ plPc = "idle"
    /\ plOrig' = text
    /\ plConfig' = config
    /\ PipeGoto(NextStage(config, 0), text, text, << >>)
    /\ UNCHANGED << ai, Config, StoreVars, UiVars, HealthVars, FpVars, OpVars, SpellVars, StageVars, AppVars >>

\* the awaited stage returns a StageResult
StageSettle(kind) ==
    /\ plPc \notin { "idle", "done" }
    /\ LET result == StageOutcome(plPc, plWork, kind) IN
       PipeGoto(NextStage(plConfig, StageIndex(plPc)), plOrig, WorkingText(plWork, result),
                Append(plStages, [stage |-> plPc, input |-> plWork, result |-> result]))
    /\ UNCHANGED << ai, Config, StoreVars, UiVars, HealthVars, FpVars, OpVars, SpellVars, StageVars, AppVars, plOrig, plConfig >>

\* an exception escapes the awaited stage
StageThrows ==
    /\ plPc \notin { "idle", "done" }
    /\ plPc' = "done"
    /\ plResult' = PipeCaught(plOrig, plStages, StageThrown)
    /\ UNCHANGED << ai, Config, StoreVars, UiVars, HealthVars, FpVars, OpVars, SpellVars, StageVars, AppVars, plOrig, plConfig,
                    plWork, plStages >>

\* the caller has read PipelineResult.finalText
PipeReturn ==
    /\ plPc = "done"
    /\ plPc' = "idle"
    /\ plConfig' = DefaultConfig
    /\ plOrig' = ""
    /\ plWork' = ""
    /\ plStages' = << >>
    /\ plResult' = NoPipeResult
    /\ UNCHANGED << ai, Config, StoreVars, UiVars, HealthVars, FpVars, OpVars, SpellVars, StageVars, AppVars >>

PipeNext ==
    \/ \E t \in PipeTexts, c \in PipeConfigs : run(t, c)
    \/ \E kind \in StageOutcomeKinds : StageSettle(kind)
    \/ StageThrows
    \/ PipeReturn

PipeSpec == SpellInit /\ [][PipeNext]_vars

----------------------------------------------------------------------------
(* openaiService.ts: checkOpenAIHealth, and the indicator of App.tsx *)

\* the statuses the /v1/models request can be answered with
HttpStatuses == { 200, 201, 204, 301, 400, 401, 403, 404, 418, 429, 499, 500, 502, 503, 599 }

\* what fetch can reject with: the abort of the timeout, a network error, an
\* Error with an empty message, and undefined
HealthThrown ==
    { [defined |-> TRUE,  name |-> "AbortError", message |-> "The user aborted a request."],
      [defined |-> TRUE,  name |-> "TypeError",  message |-> "Failed to fetch"],
      [defined |-> TRUE,  name |-> "Error",      message |-> ""],
      [defined |-> FALSE, name |-> UNDEF,        message |-> UNDEF] }

\* String(err?.message || err)
ErrorDetail(err) ==
    IF ~err.defined THEN "undefined"
    ELSE IF Truthy(err.message) THEN err.message
    ELSE err.name

\* mutant: the bound of the server errors is exclusive
HealthOfStatus_Above500(status) ==
    IF status = 200 THEN [status |-> "ok", code |-> NoCode, detail |-> UNDEF]
    ELSE IF status = 401 THEN [status |-> "auth", code |-> 401, detail |-> UNDEF]
    ELSE IF status = 429 THEN [status |-> "rate_limit", code |-> 429, detail |-> UNDEF]
    ELSE IF status > 500 THEN [status |-> "degraded", code |-> status, detail |-> UNDEF]
    ELSE [status |-> "unreachable", code |-> status, detail |-> UNDEF]

\* the object returned for a response
HealthOfStatus(status) ==
    IF status = 200 THEN [status |-> "ok", code |-> NoCode, detail |-> UNDEF]
    ELSE IF status = 401 THEN [status |-> "auth", code |-> 401, detail |-> UNDEF]
    ELSE IF status = 429 THEN [status |-> "rate_limit", code |-> 429, detail |-> UNDEF]
    ELSE IF status >= 500 THEN [status |-> "degraded", code |-> status, detail |-> UNDEF]
    ELSE [status |-> "unreachable", code |-> status, detail |-> UNDEF]

\* the object returned by the catch block
HealthOfError(err) ==
    IF err.defined /\ err.name = "AbortError"
    THEN [status |-> "unreachable", code |-> NoCode, detail |-> "timeout"]
    ELSE [status |-> "unreachable", code |-> NoCode, detail |-> ErrorDetail(err)]

\* the object returned when no key is set
HealthNoKey == [status |-> "auth", code |-> NoCode, detail |-> "OPENAI_API_KEY not set"]

\* String.prototype.toLowerCase on the letters A-Z
UpperCase == "ABCDEFGHIJKLMNOPQRSTUVWXYZ"
LowerCase == "abcdefghijklmnopqrstuvwxyz"

LowerChar(c) ==
    IF \E i \in 1..26 : SubSeq(UpperCase, i, i) = c
    THEN LET i == CHOOSE i \in 1..26 : SubSeq(UpperCase, i, i) = c IN SubSeq(LowerCase, i, i)
    ELSE c

RECURSIVE ToLowerCase(_)
ToLowerCase(s) ==
    IF s = "" THEN "" ELSE LowerChar(SubSeq(s, 1, 1)) \o ToLowerCase(SubSeq(s, 2, Len(s)))

\* HealthDot: the colour of the indicator
HealthDot(status) ==
    LET s == IF Truthy(status) THEN ToLowerCase(status) ELSE "" IN
    IF s = "ok" THEN "green"
    ELSE IF s = "rate_limit" \/ s = "degraded" THEN "yellow"
    ELSE IF s = "auth" \/ s = "unreachable" THEN "red"
    ELSE "gray"

\* an entry of the history of the running check
HealthEvent(ev, status, info) == [ev |-> ev, status |-> status, info |-> info]

\* checkOpenAIHealth() up to its await
checkOpenAIHealth ==
    /\ hcPc = "idle"
    /\ IF OPENAI_API_KEY = ""
       THEN /\ hcPc' = "done"
            /\ hcLog' = << >>
            /\ hcResult' = HealthNoKey
       ELSE /\ hcPc' = "fetching"
            /\ hcLog' = << HealthEvent("request", NoCode, OPENAI_API_KEY) >>
            /\ hcResult' = NoHealth
    /\ UNCHANGED << ai, Config, StoreVars, UiVars, PipeVars, FpVars, OpVars, SpellVars, StageVars, AppVars, openaiHealth >>

\* fetch resolves with a response
HealthFetchResolve(status) ==
    /\ hcPc = "fetching"
    /\ hcPc' = "done"
    /\ hcResult' = HealthOfStatus(status)
    /\ hcLog' = Append(hcLog, HealthEvent("response", status, UNDEF))
    /\ UNCHANGED << ai, Config, StoreVars, UiVars, PipeVars, FpVars, OpVars, SpellVars, StageVars, AppVars, openaiHealth >>

\* fetch rejects: the timer has aborted it, or the network failed
HealthFetchReject(err) ==
    /\ hcPc = "fetching"
    /\ hcPc' = "done"
    /\ hcResult' = HealthOfError(err)
    /\ hcLog' = Append(hcLog, HealthEvent("rejected", NoCode, err.name))
    /\ UNCHANGED << ai, Config, StoreVars, UiVars, PipeVars, FpVars, OpVars, SpellVars, StageVars, AppVars, openaiHealth >>

\* the mount effect of the App stores the result: setOpenaiHealth(res)
HealthReturn ==
    /\ hcPc = "done"
    /\ hcPc' = "idle"
    /\ openaiHealth' = hcResult
    /\ hcLog' = << >>
    /\ hcResult' = NoHealth
    /\ UNCHANGED << ai, Config, StoreVars, UiVars, PipeVars, FpVars, OpVars, SpellVars, StageVars, AppVars >>

HealthNext ==
    \/ checkOpenAIHealth
    \/ \E status \in HttpStatuses : HealthFetchResolve(status)
    \/ \E err \in HealthThrown : HealthFetchReject(err)
    \/ HealthReturn

HealthSpec == Init /\ [][HealthNext]_vars

----------------------------------------------------------------------------
(* App.tsx: the recorder, the history list and overlapping                *)
(* handleTranscription calls.  Every start of the user (a recording or a  *)
(* re-transcription) has a number; the transcript of start e is a text    *)
(* that names e, so that the text shown can be traced to its start.  The  *)
(* punctuation run of a call is taken by its result only.                 *)

Digit(n) == SubSeq("0123456789", n + 1, n + 1)

\* what transcribeAudio resolves to for start e
Transcript(e) == "t" \o Digit(e)

\* how fixPunctuation can resolve: a punctuated text, a failure result with
\* its input, success with an empty text
PunctuationKinds == { "punctuated", "failed", "empty" }

PunctuationOutcome(raw, kind) ==
    CASE kind = "punctuated" -> GeminiSuccess(raw \o ".", raw)
      [] kind = "failed"     -> FinalFailure(raw, [isError |-> TRUE, msg |-> "fetch failed"])
      [] kind = "empty"      -> ChatSuccess(" ", "DeepSeek")

\* setError of the catch of startRecording
MicrophoneDenied == "microphone access denied"

\* mutant: the catch of handleTranscription leaves the status as it is
CaughtStatus_Processing == "PROCESSING"

\* setStatus(RecorderStatus.IDLE) of the catch of handleTranscription
CaughtStatus == "IDLE"

\* handleTranscription(audioBlob, ...) up to its first await, for start e
TranscriptionCall(e) ==
    /\ appStatus' = "PROCESSING"
    /\ uiRuns' = [uiRuns EXCEPT ![e] = [pc |-> "transcribing", result |-> NoResult]]

\* startRecording up to its await: the RecordButton while it shows the
\* microphone and is enabled, or the Space key
startRecording ==
    /\ appStatus \in { "IDLE", "COMPLETED" }
    /\ uiEpoch < MaxStarts
    /\ uiEpoch' = uiEpoch + 1
    /\ appError' = UNDEF
    /\ appText' = ""
    /\ uiStarts' = uiStarts \cup { uiEpoch + 1 }
    /\ UNCHANGED << ai, Config, StoreVars, HealthVars, PipeVars, FpVars, OpVars, SpellVars, StageVars, appPc,
                    appStatus, appRaw, appSaved, uiRecorders, mediaRecorderRef, uiOnStop, uiRuns >>

\* getUserMedia resolves: a MediaRecorder is created, stored in the ref and started
GetUserMediaResolve(e) ==
    /\ e \in uiStarts
    /\ uiStarts' = uiStarts \ { e }
    /\ uiRecorders' = uiRecorders \cup { e }
    /\ mediaRecorderRef' = e
    /\ appStatus' = "RECORDING"
    /\ UNCHANGED << ai, Config, StoreVars, HealthVars, PipeVars, FpVars, OpVars, SpellVars, StageVars, appPc,
                    appText, appError, appRaw, appSaved, uiEpoch, uiOnStop, uiRuns >>

\* getUserMedia rejects: the catch of startRecording
GetUserMediaReject(e) ==
    /\ e \in uiStarts
    /\ uiStarts' = uiStarts \ { e }
    /\ appError' = MicrophoneDenied
    /\ appStatus' = "IDLE"
    /\ UNCHANGED << ai, Config, StoreVars, HealthVars, PipeVars, FpVars, OpVars, SpellVars, StageVars, appPc,
                    appText, appRaw, appSaved, uiEpoch, uiRecorders, mediaRecorderRef, uiOnStop,
                    uiRuns >>

\* stopRecording: the RecordButton while it shows the square, or the Space
\* key; stop() on a recorder that is not recording throws before setStatus
stopRecording ==
    /\ appStatus = "RECORDING"
    /\ mediaRecorderRef # 0
    /\ IF mediaRecorderRef \in uiRecorders
       THEN /\ uiRecorders' = uiRecorders \ { mediaRecorderRef }
            /\ uiOnStop' = uiOnStop \cup { mediaRecorderRef }
            /\ appStatus' = "PROCESSING"
       ELSE UNCHANGED << uiRecorders, uiOnStop, appStatus >>
    /\ UNCHANGED << ai, Config, StoreVars, HealthVars, PipeVars, FpVars, OpVars, SpellVars, StageVars, appPc,
                    appText, appError, appRaw, appSaved, uiEpoch, uiStarts, mediaRecorderRef,
                    uiRuns >>

\* mediaRecorder.onstop of recorder e: handleTranscription(audioBlob)
RecorderOnStop(e) ==
    /\ e \in uiOnStop
    /\ uiOnStop' = uiOnStop \ { e }
    /\ TranscriptionCall(e)
    /\ UNCHANGED << ai, Config, StoreVars, HealthVars, PipeVars, FpVars, OpVars, SpellVars, StageVars, appPc,
                    appText, appError, appRaw, appSaved, uiEpoch, uiStarts, uiRecorders,
                    mediaRecorderRef >>

\* handleRetranscribe: a recording of the history list is chosen
handleRetranscribe ==
    /\ uiEpoch < MaxStarts
    /\ uiEpoch' = uiEpoch + 1
    /\ appText' = ""
    /\ appError' = UNDEF
    /\ TranscriptionCall(uiEpoch + 1)
    /\ UNCHANGED << ai, Config, StoreVars, HealthVars, PipeVars, FpVars, OpVars, SpellVars, StageVars, appPc,
                    appRaw, appSaved, uiStarts, uiRecorders, mediaRecorderRef, uiOnStop >>

\* the run of start e moves to pc with the result it holds
RunGoto(e, pc, result) == uiRuns' = [uiRuns EXCEPT ![e] = [pc |-> pc, result |-> result]]

\* transcribeAudio of the call of start e resolves
RunTranscribeResolve(e) ==
    /\ uiRuns[e].pc = "transcribing"
    /\ appText' = Transcript(e)
    /\ appStatus' = "COMPLETED"
    /\ RunGoto(e, "copying raw", NoResult)
    /\ UNCHANGED << ai, Config, StoreVars, HealthVars, PipeVars, FpVars, OpVars, SpellVars, StageVars, appPc,
                    appError, appRaw, appSaved, uiEpoch, uiStarts, uiRecorders, mediaRecorderRef,
                    uiOnStop >>

\* transcribeAudio of the call of start e rejects
RunTranscribeReject(e, thrown) ==
    /\ uiRuns[e].pc = "transcribing"
    /\ appError' = AppErrorMessage(thrown)
    /\ appStatus' = CaughtStatus
    /\ RunGoto(e, "none", NoResult)
    /\ UNCHANGED << ai, Config, StoreVars, HealthVars, PipeVars, FpVars, OpVars, SpellVars, StageVars, appPc,
                    appText, appRaw, appSaved, uiEpoch, uiStarts, uiRecorders, mediaRecorderRef,
                    uiOnStop >>

\* copyToClipboard(result.text) has settled: fixPunctuation is called
RunRawCopied(e) ==
    /\ uiRuns[e].pc = "copying raw"
    /\ RunGoto(e, "punctuating", NoResult)
    /\ UNCHANGED << ai, Config, StoreVars, HealthVars, PipeVars, FpVars, OpVars, SpellVars, StageVars, AppVars,
                    uiEpoch, uiStarts, uiRecorders, mediaRecorderRef, uiOnStop >>

\* fixPunctuation of the call of start e has resolved: the then callback
RunPunctuationSettled(e, kind) ==
    /\ uiRuns[e].pc = "punctuating"
    /\ LET result == PunctuationOutcome(Transcript(e), kind) IN
       IF UsePunctuated(result)
       THEN /\ appText' = result.text
            /\ RunGoto(e, "copying", result)
       ELSE /\ appText' = appText
            /\ RunGoto(e, "saving", result)
    /\ UNCHANGED << ai, Config, StoreVars, HealthVars, PipeVars, FpVars, OpVars, SpellVars, StageVars, appPc,
                    appStatus, appError, appRaw, appSaved, uiEpoch, uiStarts, uiRecorders,
                    mediaRecorderRef, uiOnStop >>

\* copyToClipboard(punctuationResult.text) has settled: saveRecording is called
RunPunctuatedCopied(e) ==
    /\ uiRuns[e].pc = "copying"
    /\ RunGoto(e, "saving", uiRuns[e].result)
    /\ UNCHANGED << ai, Config, StoreVars, HealthVars, PipeVars, FpVars, OpVars, SpellVars, StageVars, AppVars,
                    uiEpoch, uiStarts, uiRecorders, mediaRecorderRef, uiOnStop >>

\* saveRecording has settled; a failure is only logged
RunSaved(e, ok) ==
    /\ uiRuns[e].pc = "saving"
    /\ RunGoto(e, "none", NoResult)
    /\ UNCHANGED << ai, Config, StoreVars, HealthVars, PipeVars, FpVars, OpVars, SpellVars, StageVars, AppVars,
                    uiEpoch, uiStarts, uiRecorders, mediaRecorderRef, uiOnStop >>

\* a transcribeAudio call settles
TranscriptionSettles ==
    \E e \in Epochs : \/ RunTranscribeResolve(e)
                      \/ \E th \in TranscribeThrown : RunTranscribeReject(e, th)

\* the stop event of a stopped recorder is dispatched
StopEventFires == \E e \in Epochs : RecorderOnStop(e)

UiNext ==
    \/ startRecording
    \/ \E e \in Epochs : GetUserMediaResolve(e)
    \/ \E e \in Epochs : GetUserMediaReject(e)
    \/ stopRecording
    \/ StopEventFires
    \/ handleRetranscribe
    \/ TranscriptionSettles
    \/ \E e \in Epochs : RunRawCopied(e)
    \/ \E e \in Epochs, kind \in PunctuationKinds : RunPunctuationSettled(e, kind)
    \/ \E e \in Epochs : RunPunctuatedCopied(e)
    \/ \E e \in Epochs, ok \in BOOLEAN : RunSaved(e, ok)

UiSpec == AppInit /\ [][UiNext]_vars

\* every transcribeAudio call settles and every stop event is dispatched
UiFairSpec == UiSpec /\ WF_vars(TranscriptionSettles) /\ WF_vars(StopEventFires)

----------------------------------------------------------------------------
(* The recording store (IndexedDB): saveRecording, getRecording,          *)
(* updateRecording, deleteRecording, clearAllRecordings.  Every request   *)
(* runs in a transaction of its own and takes effect in one step; the     *)
(* awaits between the requests of one call are separate steps.            *)

\* the fields a call of updateRecording(id, updates) passes: a field it does
\* not pass is NoId or UNDEF
UpdateSets(id) ==
    { [id |-> NoId, text |-> "b", mode |-> UNDEF],
      [id |-> NoId, text |-> UNDEF, mode |-> "coding"] }
    \cup { [id |-> (id % MaxIds) + 1, text |-> "b", mode |-> UNDEF] }

\* mutant: the id of the update fields wins over the argument id
Overlay_UpdateIdWins(existing, updates, id) ==
    [id   |-> IF updates.id # NoId THEN updates.id ELSE id,
     text |-> IF updates.text # UNDEF THEN updates.text ELSE existing.text,
     mode |-> IF updates.mode # UNDEF THEN updates.mode ELSE existing.mode]

\* { ...existing, ...updates, id }
Overlay(existing, updates, id) ==
    [id   |-> id,
     text |-> IF updates.text # UNDEF THEN updates.text ELSE existing.text,
     mode |-> IF updates.mode # UNDEF THEN updates.mode ELSE existing.mode]

\* throw new Error(`Recording with id ${id} not found`)
NotFound == "Recording not found"

\* call c moves on
CallGoto(c, call) == dbCalls' = [dbCalls EXCEPT ![c] = call]

\* the c-th call of a storage function is made: up to await initDB()
StoreCall(c, op, id, updates) ==
    /\ dbCalls[c].op = "none"
    /\ \A b \in Calls : b < c => dbCalls[b].op # "none"
    /\ CallGoto(c, [NoCall EXCEPT !.op = op, !.pc = "opening", !.id = id, !.updates = updates])
    /\ UNCHANGED << ai, Config, UiVars, HealthVars, PipeVars, FpVars, OpVars, SpellVars, StageVars,
                    AppVars, db, dbNextId, dbRemoved >>

\* saveRecording(audioBlob, text, metadata): its one request, store.add, has
\* succeeded and the key generator has named the record
saveRecording(text) ==
    /\ dbNextId <= MaxIds
    /\ db' = [db EXCEPT ![dbNextId] = [id |-> dbNextId, text |-> text, mode |-> "general"]]
    /\ dbNextId' = dbNextId + 1
    /\ UNCHANGED << ai, Config, UiVars, HealthVars, PipeVars, FpVars, OpVars, SpellVars, StageVars,
                    AppVars, dbRemoved, dbCalls >>

\* updateRecording(id, updates)
updateRecording(c, id, updates) == StoreCall(c, "update", id, updates)

\* deleteRecording(id)
deleteRecording(c, id) == StoreCall(c, "delete", id, Absent)

\* clearAllRecordings()
clearAllRecordings(c) == StoreCall(c, "clear", NoId, Absent)

\* initDB() of call c resolves and its first request is placed
\* (updateRecording goes through getRecording, whose own initDB() touches
\* nothing either, to store.get(id))
DbOpened(c) ==
    /\ dbCalls[c].pc = "opening"
    /\ CallGoto(c, [dbCalls[c] EXCEPT !.pc =
           CASE dbCalls[c].op = "update" -> "reading"
             [] dbCalls[c].op = "delete" -> "deleting"
             [] dbCalls[c].op = "clear"  -> "clearing"])
    /\ UNCHANGED << ai, Config, UiVars, HealthVars, PipeVars, FpVars, OpVars, SpellVars, StageVars,
                    AppVars, db, dbNextId, dbRemoved >>

\* store.get(id) succeeds: getRecording resolves with request.result || null,
\* and updateRecording throws or places store.put(updated)
GetDone(c) ==
    /\ dbCalls[c].pc = "reading"
    /\ LET existing == db[dbCalls[c].id] IN
       IF existing = Absent
       THEN CallGoto(c, [dbCalls[c] EXCEPT !.pc = "rejected", !.error = NotFound])
       ELSE CallGoto(c, [dbCalls[c] EXCEPT !.pc = "writing", !.existing = existing])
    /\ UNCHANGED << ai, Config, UiVars, HealthVars, PipeVars, FpVars, OpVars, SpellVars, StageVars,
                    AppVars, db, dbNextId, dbRemoved >>

\* store.put(updated) succeeds
PutDone(c) ==
    /\ dbCalls[c].pc = "writing"
    /\ LET updated == Overlay(dbCalls[c].existing, dbCalls[c].updates, dbCalls[c].id) IN
       /\ updated.id \in Ids
       /\ db' = [db EXCEPT ![updated.id] = updated]
       /\ dbNextId' = IF updated.id >= dbNextId THEN updated.id + 1 ELSE dbNextId
    /\ CallGoto(c, [dbCalls[c] EXCEPT !.pc = "done"])
    /\ UNCHANGED << ai, Config, UiVars, HealthVars, PipeVars, FpVars, OpVars, SpellVars, StageVars,
                    AppVars, dbRemoved >>

\* store.delete(id) succeeds
DeleteDone(c) ==
    /\ dbCalls[c].pc = "deleting"
    /\ db' = [db EXCEPT ![dbCalls[c].id] = Absent]
    /\ dbRemoved' = IF db[dbCalls[c].id] # Absent
                    THEN dbRemoved \cup { dbCalls[c].id } ELSE dbRemoved
    /\ CallGoto(c, [dbCalls[c] EXCEPT !.pc = "done"])
    /\ UNCHANGED << ai, Config, UiVars, HealthVars, PipeVars, FpVars, OpVars, SpellVars, StageVars,
                    AppVars, dbNextId >>

\* store.clear() succeeds
ClearDone(c) ==
    /\ dbCalls[c].pc = "clearing"
    /\ db' = [i \in Ids |-> Absent]
    /\ dbRemoved' = dbRemoved \cup { i \in Ids : db[i] # Absent }
    /\ CallGoto(c, [dbCalls[c] EXCEPT !.pc = "done"])
    /\ UNCHANGED << ai, Config, UiVars, HealthVars, PipeVars, FpVars, OpVars, SpellVars, StageVars,
                    AppVars, dbNextId >>

\* the pending request of call c fails: request.onerror rejects the promise
RequestFails(c) ==
    /\ dbCalls[c].pc \in { "reading", "writing", "deleting", "clearing" }
    /\ CallGoto(c, [dbCalls[c] EXCEPT !.pc = "rejected", !.error = "request failed"])
    /\ UNCHANGED << ai, Config, UiVars, HealthVars, PipeVars, FpVars, OpVars, SpellVars, StageVars,
                    AppVars, db, dbNextId, dbRemoved >>

StoreNext ==
    \/ saveRecording("a")
    \/ \E c \in Calls, id \in Ids : \E u \in UpdateSets(id) : updateRecording(c, id, u)
    \/ \E c \in Calls, id \in Ids : deleteRecording(c, id)
    \/ \E c \in Calls : clearAllRecordings(c)
    \/ \E c \in Calls : DbOpened(c)
    \/ \E c \in Calls : GetDone(c)
    \/ \E c \in Calls : PutDone(c)
    \/ \E c \in Calls : DeleteDone(c)
    \/ \E c \in Calls : ClearDone(c)
    \/ \E c \in Calls : RequestFails(c)

StoreSpec == AppInit /\ [][StoreNext]_vars

Next ==
    \/ \E k \in GeminiKeys : setPostProcessingApiKey(k)
    \/ \E t \in InputTexts, m \in Modes, tn \in Tones : fixPunctuation(t, m, tn)
    \/ \E rt \in GeminiTexts : GeminiResolve(rt)
    \/ \E th \in GeminiThrown : GeminiReject(th)
    \/ \E res \in IpcOutcomes : IpcSettle(res)
    \/ \E res \in FetchOutcomes : FetchSettle(res)
    \/ FixPunctuationReturn
    \/ \E kind \in CorrectionKinds : CorrectionCall(kind)
    \/ \E rt \in GeminiTexts : CorrectionResolve(rt)
    \/ \E th \in GeminiThrown : CorrectionReject(th)
    \/ CorrectionReturn

Spec == Init /\ [][Next]_vars

----------------------------------------------------------------------------
(* Properties.  They read the history log of the running call.           *)

LogIdx == 1..Len(log)
Has(tier, ev) == \E i \in LogIdx : log[i].tier = tier /\ log[i].ev = ev
Count(tier, ev) == Cardinality({i \in LogIdx : log[i].tier = tier /\ log[i].ev = ev})
TierRank(tier) == CASE tier = "gemini" -> 1 [] tier = "groq" -> 2 [] tier = "deepseek" -> 3

\* a usable message body: a non-empty string
Usable(content) == content # UNDEF /\ content # "" /\ content # NONSTRING
\* the call of tier settled with a response that carries a usable body
Yielded(tier) ==
    \E i \in LogIdx : /\ log[i].tier = tier /\ log[i].ev = "settled"
                      /\ log[i].via # "throw" /\ Usable(log[i].content)
GeminiThrew == \E i \in LogIdx : log[i] = Event("gemini", "settled", "throw", "", UNDEF)
GeminiSucceeded == \E i \in LogIdx : /\ log[i].tier = "gemini" /\ log[i].ev = "settled"
                                     /\ log[i].via = "ok"
\* the call is over and no tier produced a text
AllTiersFailed ==
    /\ fpPc = "done"
    /\ ~GeminiSucceeded /\ ~Yielded("groq") /\ ~Yielded("deepseek")

\* C1 (as claimed): whenever the generateContent call of tier 1 has raised an
\* exception, whatever its message, the chat completion of tier 2 has been called.
C1_AnyTier1ErrorFallsBack == GeminiThrew => Has("groq", "call")

\* C2: in one call the provider events are in the order Gemini, Groq, DeepSeek;
\* Gemini receives at most one request and each chat tier at most one
\* chatCompletion call; DeepSeek is called only after Groq was; a tier is called
\* or sent a request only after every earlier tier of the log has settled, so at
\* most one tier is unsettled at any time, and none once the call is done.
C2_TierOrder ==
    /\ \A i, j \in LogIdx : i < j => TierRank(log[i].tier) <= TierRank(log[j].tier)
    /\ Count("gemini", "request") <= 1
    /\ Count("groq", "call") <= 1
    /\ Count("deepseek", "call") <= 1
    /\ Has("deepseek", "call") => Has("groq", "call")
    /\ \A i, j \in LogIdx :
          (i < j /\ log[i].tier # log[j].tier /\ log[j].ev \in {"call", "request"})
             => \E k \in LogIdx : k < j /\ log[k].tier = log[i].tier /\ log[k].ev = "settled"
    /\ Cardinality({t \in {"gemini", "groq", "deepseek"} :
                       (\E i \in LogIdx : log[i].tier = t) /\ ~Has(t, "settled")}) <= 1
    /\ fpPc = "done" => \A i \in LogIdx : Has(log[i].tier, "settled")
    /\ \A t \in {"groq", "deepseek"} : Has(t, "request") => Has(t, "call")

\* C2 witness: a finished call that contacted all three providers
C2_Witness ==
    fpPc = "done" /\ Has("gemini", "request") /\ Has("groq", "request")
                  /\ Has("deepseek", "request")

\* C3: if tier 1 failed and the Groq call returned a response with a usable
\* message body, the call is done with success = true and the trimmed Groq text,
\* and DeepSeek was not called.
C3_Tier2SuccessWins ==
    \A i \in LogIdx :
        (/\ log[i].tier = "groq" /\ log[i].ev = "settled"
         /\ log[i].via # "throw" /\ Usable(log[i].content))
        => /\ fpErr # NoErr
           /\ fpPc = "done"
           /\ fpResult.success = TRUE
           /\ fpResult.text = Trim(log[i].content)
           /\ Count("deepseek", "call") = 0
           /\ Count("deepseek", "request") = 0

\* C3 witness: Gemini threw, Groq answered with a usable body, a DeepSeek key is set
C3_Witness == GeminiThrew /\ Yielded("groq") /\ DeepSeekKey # "" /\ fpResult.text = "A; b!"

\* C4 (as claimed): when the call is done, tier 2 was attempted and did not yield
\* a usable body (it threw, or its response had no message content), and a
\* DeepSeek key is configured, then tier 3 was attempted.
C4_Tier2FailureTriesTier3 ==
    (fpPc = "done" /\ Has("groq", "call") /\ ~Yielded("groq") /\ DeepSeekKey # "")
        => Has("deepseek", "call")

\* C5: every DeepSeek call and request carries a non-empty key, which is the
\* local override if set, else the environment DeepSeek key if set, else the
\* primary chat-completion key of the environment; with all three absent no
\* DeepSeek call is made and a call whose tier 2 threw ends in the failure result.
C5_DeepSeekKeyLookup ==
    /\ \A i \in LogIdx : log[i].tier = "deepseek" =>
          /\ log[i].key # ""
          /\ lsDeepseekKey # "" => log[i].key = lsDeepseekKey
          /\ (lsDeepseekKey = "" /\ envDeepseekKey # "") => log[i].key = envDeepseekKey
          /\ (lsDeepseekKey = "" /\ envDeepseekKey = "") => log[i].key = envOpenaiKey
    /\ fpPc = "deepseek" => chat.apiKey # "" /\ Has("deepseek", "call")
    /\ (lsDeepseekKey = "" /\ envDeepseekKey = "" /\ envOpenaiKey = "") =>
          /\ \A i \in LogIdx : log[i].tier # "deepseek"
          /\ (\E i \in LogIdx : log[i].tier = "groq" /\ log[i].ev = "settled"
                                /\ log[i].via = "throw")
                => fpPc = "done" /\ fpResult.success = FALSE

\* C5 witness: a DeepSeek request in flight with every key source set
C5_Witness ==
    /\ fpPc = "deepseek" /\ Has("deepseek", "request")
    /\ lsDeepseekKey # "" /\ envDeepseekKey # "" /\ envOpenaiKey # ""

\* C6: when no tier produced a text (each attempted tier failed, the others were
\* skipped), the result has success = false and exactly the input text.
C6_FailureKeepsInput ==
    AllTiersFailed => fpResult.success = FALSE /\ fpResult.text = fpText

\* C6 witness: all three tiers were attempted and failed, on a non-empty input
C6_Witness ==
    AllTiersFailed /\ GeminiThrew /\ Has("groq", "settled") /\ Has("deepseek", "settled")
                   /\ fpText # ""

C8_NeverRejects ==
    /\ fpPc \in {"idle", "gemini", "groq", "deepseek", "done"}
    /\ fpPc \in {"groq", "deepseek"} <=> chat.transport \in {"ipc", "fetch"}
    /\ fpPc = "done" =>
          /\ fpResult.success \in BOOLEAN
          /\ fpResult.text # UNDEF
          /\ fpResult.success = FALSE => fpResult.error # UNDEF

\* C8 witness: the last provider answered with a content that has no trim method
\* and the call still resolved
C8_Witness ==
    /\ fpPc = "done"
    /\ \E i \in LogIdx : log[i].tier = "deepseek" /\ log[i].ev = "settled"
                         /\ log[i].content = NONSTRING

\* C9: while the handle is null, a correction call creates no client, sends no
\* request to the generative provider and ends at once in the failure result
\* that carries the error of getAI; the handle leaves null only by a step that
\* is no correction call.
C9_GetAIFailsFast ==
    [][ai = NoClient =>
         /\ (fpPc = "idle" /\ fpPc' # "idle") =>
               /\ ai' = NoClient
               /\ fpPc' = "done"
               /\ fpErr' = InitError
               /\ fpResult'.success = FALSE
               /\ fpResult'.error = InitError.msg
               /\ \A i \in 1..Len(log') : log'[i].tier # "gemini"
         /\ (opPc = "idle" /\ opPc' # "idle") =>
               /\ ai' = NoClient
               /\ opPc' = "done"
               /\ opResult'.success = FALSE
               /\ opResult'.error = InitError.msg
         /\ fpPc' # "gemini"
         /\ opPc' \notin CorrectionKinds]_vars

\* C9 witness: fixPunctuation was called with a null handle and is done
C9_Witness ==
    /\ ai = NoClient /\ fpPc = "done" /\ log = << >>
    /\ fpResult.error = InitError.msg

\* C10: the handle changes only in a step that starts, continues and ends no
\* correction call, and then to a client made from a non-empty key; no step makes
\* an initialized handle null.
C10_SingleWriter ==
    [][/\ ai' # ai => /\ ai' \in 1..NumKeys
                      /\ UNCHANGED << fpPc, fpErr, fpResult, chat, log, opPc, opResult >>
       /\ ai # NoClient => ai' # NoClient]_vars

\* C10 witness: the handle is set and a fixPunctuation call whose generateContent
\* threw has ended in failure
C10_Witness ==
    ai # NoClient /\ fpPc = "done" /\ fpResult.success = FALSE /\ GeminiThrew

\* the tier whose response became the text of a successful result
Producer ==
    IF GeminiSucceeded THEN "gemini"
    ELSE IF Yielded("groq") THEN "groq"
    ELSE IF Yielded("deepseek") THEN "deepseek"
    ELSE "none"

RequestPrompt(e) ==
    IF e.tier = "gemini" THEN GeminiPrompt(fpText, fpMode, fpTone)
    ELSE ChatMessages(fpText, fpMode)

\* C12 (as claimed): every request sent to a chat-completion tier carries the
\* policy of the instruction of the generative tier for the same mode and tone:
\* the same task (punctuation only in mode general), the same tone directive
\* (none in mode general and for tone default), the same text.
C12_SamePolicy ==
    \A i \in LogIdx :
        (log[i].ev = "request" /\ log[i].tier \in {"groq", "deepseek"})
        => /\ RequestPrompt(log[i]).task = GeminiPrompt(fpText, fpMode, fpTone).task
           /\ RequestPrompt(log[i]).tone = GeminiPrompt(fpText, fpMode, fpTone).tone
           /\ RequestPrompt(log[i]).text = GeminiPrompt(fpText, fpMode, fpTone).text

----------------------------------------------------------------------------
(* Properties of checkSpelling and of the spelling stage *)

\* C13: a checkSpelling call on an empty or whitespace-only text, with any
\* language list, is done at once with success = true, the text unchanged, no
\* errors, no request submitted and no response awaited.
C13_BlankFastPath ==
    (spPc # "idle" /\ (spArg = "" \/ Trim(spArg) = "")) =>
        /\ spPc = "done"
        /\ spResult.success = TRUE
        /\ spResult.text = spArg
        /\ spResult.errors = << >>
        /\ spResult.correctedCount = 0
        /\ spSent = << >>
        /\ spSeen = << >>

\* C13 witness: a whitespace-only text with one language is done
C13_Witness ==
    spPc = "done" /\ spArg = "   " /\ spLang = << "en" >> /\ spResult.text = "   "

\* C14: every text submitted to the speller API has at most 10,000 characters;
\* it is the text passed in when that has at most 10,000 characters, else its
\* first 10,000 characters; one call submits at most one request.
C14_SubmittedText ==
    /\ Len(spSent) <= 1
    /\ spPc \in {"fetch", "json"} => Len(spSent) = 1
    /\ \A i \in 1..Len(spSent) :
          /\ Len(spSent[i].text) <= MaxSpellerLen
          /\ Len(spArg) <= MaxSpellerLen => spSent[i].text = spArg
          /\ Len(spArg) > MaxSpellerLen =>
                /\ Len(spSent[i].text) = MaxSpellerLen
                /\ spSent[i].text = SubSeq(spArg, 1, MaxSpellerLen)

\* C14 witness: a text of 10,001 characters was cut to 10,000 and submitted
C14_Witness ==
    /\ Len(spArg) = MaxSpellerLen + 1
    /\ Len(spSent) = 1 /\ Len(spSent[1].text) = MaxSpellerLen

\* the checkSpelling call has merged the records of a response into its text
Merged == spPc = "done" /\ spResult.success /\ spSent # << >>

\* every span [pos, pos + len) lies inside the text
SpansInside(text, errors) ==
    \A i \in 1..Len(errors) : errors[i].pos + errors[i].len <= Len(text)

\* no two spans share a character
SpansDisjoint(errors) ==
    \A i, j \in 1..Len(errors) :
        i # j => \/ errors[i].pos + errors[i].len <= errors[j].pos
                 \/ errors[j].pos + errors[j].len <= errors[i].pos

\* the text read from character i on, each span that starts there and has a
\* candidate replaced by its first candidate
RECURSIVE Replaced(_, _, _)
Replaced(text, errors, i) ==
    IF i >= Len(text) THEN ""
    ELSE IF \E k \in 1..Len(errors) :
                errors[k].pos = i /\ errors[k].hasS /\ Len(errors[k].s) > 0
         THEN LET k == CHOOSE k \in 1..Len(errors) :
                          errors[k].pos = i /\ errors[k].hasS /\ Len(errors[k].s) > 0
              IN  errors[k].s[1] \o Replaced(text, errors, i + errors[k].len)
         ELSE SubSeq(text, i + 1, i + 1) \o Replaced(text, errors, i + 1)

\* C15: when the spans of the records lie inside the text and are pairwise
\* disjoint, the merged text is the text with each span that has a candidate
\* replaced by its first candidate and every other character kept in order.
C15_MergeReplacesSpans ==
    (Merged /\ SpansInside(spText, spResult.errors) /\ SpansDisjoint(spResult.errors))
        => spResult.text = Replaced(spText, spResult.errors, 0)

\* C15 witness: two disjoint spans, the lower one first in the array, both
\* replaced by candidates of another length than their span
C15_Witness ==
    /\ Merged /\ Len(spResult.errors) = 2
    /\ SpansInside(spText, spResult.errors) /\ SpansDisjoint(spResult.errors)
    /\ spResult.errors[1].pos < spResult.errors[2].pos
    /\ \A i \in 1..2 : /\ spResult.errors[i].hasS /\ Len(spResult.errors[i].s) > 0
                       /\ Len(spResult.errors[i].s[1]) # spResult.errors[i].len

\* the arrays that hold the records of errors in some order
ReorderingsOf(errors) ==
    { [i \in 1..Len(errors) |-> errors[p[i]]] :
          p \in { q \in [1..Len(errors) -> 1..Len(errors)] :
                      \A i, j \in 1..Len(errors) : q[i] = q[j] => i = j } }

\* C16 (as claimed): for every array of records, also with equal or overlapping
\* positions, every permutation of the array merges to the same text.
C16_AnyOrderSameText ==
    Merged => \A perm \in ReorderingsOf(spResult.errors) :
                  applyCorrections(spText, perm) = spResult.text

\* no two records that have a candidate start at the same position
CandidatePositionsDistinct(errors) ==
    \A i, j \in 1..Len(errors) :
        (i # j /\ errors[i].hasS /\ Len(errors[i].s) > 0
               /\ errors[j].hasS /\ Len(errors[j].s) > 0)
            => errors[i].pos # errors[j].pos

\* C16 (amended): for every array of records in which no two records that have
\* a candidate start at the same position (their spans may overlap), every
\* permutation of the array merges to the same text.
C16_DistinctPosSameText ==
    (Merged /\ CandidatePositionsDistinct(spResult.errors))
        => \A perm \in ReorderingsOf(spResult.errors) :
               applyCorrections(spText, perm) = spResult.text

\* C16 witness: two overlapping spans at different positions, both with a
\* candidate, the lower one first in the array
C16_Witness ==
    /\ Merged /\ Len(spResult.errors) = 2
    /\ CandidatePositionsDistinct(spResult.errors)
    /\ ~SpansDisjoint(spResult.errors)
    /\ spResult.errors[1].pos < spResult.errors[2].pos
    /\ \A i \in 1..2 : spResult.errors[i].hasS /\ Len(spResult.errors[i].s) > 0

\* errors without its record k
Without(errors, k) == SubSeq(errors, 1, k - 1) \o SubSeq(errors, k + 1, Len(errors))

\* C17: a record whose candidate list is empty or missing is skipped: the merged
\* text is the merge of the array without that record, and the text itself when
\* no record has a candidate.
C17_NoCandidateSkipped ==
    Merged =>
        /\ \A k \in 1..Len(spResult.errors) :
              (~spResult.errors[k].hasS \/ Len(spResult.errors[k].s) = 0)
                  => spResult.text = applyCorrections(spText, Without(spResult.errors, k))
        /\ (\A k \in 1..Len(spResult.errors) :
                ~spResult.errors[k].hasS \/ Len(spResult.errors[k].s) = 0)
              => spResult.text = spText

\* C17 witness: a record without the field s before a record with a candidate
\* at a lower position, in a text that the merge changed
C17_Witness ==
    /\ Merged /\ Len(spResult.errors) = 2
    /\ ~spResult.errors[1].hasS
    /\ spResult.errors[2].hasS /\ Len(spResult.errors[2].s) > 0
    /\ spResult.errors[2].pos < spResult.errors[1].pos
    /\ spResult.text # spText

\* the spelling adapter call is over and has failed: the last answer of the
\* speller API was a network error, a status that is not ok, a body that is no
\* JSON, or JSON that is no array
AdapterFailed ==
    spPc = "done" /\ spSeen # << >> /\ spSeen[Len(spSeen)] # "array"

C19_FailureKeepsOriginal ==
    (spPc = "done" /\ spSent # << >> /\ ~spResult.success) =>
        /\ spResult.error # UNDEF
        /\ spResult.text = spArg

----------------------------------------------------------------------------
(* Properties of handleTranscription *)

\* the text the running handleTranscription call is to keep: the output of the
\* punctuation run when that resolved with success and a non-empty text, else
\* the raw transcript
KeptText ==
    IF fpPc = "done" /\ fpResult.success = TRUE
                     /\ fpResult.text # UNDEF /\ fpResult.text # ""
    THEN fpResult.text
    ELSE appRaw

\* C20: from the moment the raw transcript is shown until the punctuation run
\* settles, the text shown is the raw transcript and nothing was saved; once the
\* callback of the punctuation run has acted, the text shown is the stage's
\* output if the stage reported success with a non-empty text and the raw
\* transcript in every other outcome; at most one text is handed to the
\* recording store, and it is that same text.
C20_KeptText ==
    /\ appPc \in {"copying raw", "punctuating"} => appText = appRaw /\ appSaved = << >>
    /\ appPc \in {"copying", "saving"} => appText = KeptText
    /\ appPc = "copying" => appSaved = << >>
    /\ appPc = "saving" => appSaved = << KeptText >>
    /\ (appPc \notin {"idle", "transcribing"} /\ appText # appRaw) =>
          /\ fpPc = "done" /\ fpResult.success = TRUE
          /\ fpResult.text = appText /\ appText # ""

\* C20 witness: the stage reported success with an empty text for a non-empty
\* transcript, and the raw transcript was kept and handed to the store
C20_Witness ==
    /\ appPc = "saving" /\ fpPc = "done"
    /\ fpResult.success = TRUE /\ fpResult.text = ""
    /\ appRaw # "" /\ appText = appRaw /\ appSaved = << appRaw >>

----------------------------------------------------------------------------
(* The pipeline orchestrator *)

\* the stages the run has attempted, in order
Attempted == [i \in 1..Len(plStages) |-> plStages[i].stage]

\* the stages the configuration enables, in the order of the orchestrator
EnabledStages(config) ==
    SelectSeq(StageNames, LAMBDA stage : StageEnabled(config, StageIndex(stage)))

IsPrefix(s, t) == Len(s) <= Len(t) /\ s = SubSeq(t, 1, Len(s))

\* the attempts up to number i that succeeded with a non-empty text
KeptStages(i) ==
    { j \in 1..i : plStages[j].result.success /\ plStages[j].result.text # "" }

\* the working text after attempt number i
WorkAfter(i) ==
    IF KeptStages(i) = {}
    THEN plOrig
    ELSE plStages[CHOOSE j \in KeptStages(i) : \A k \in KeptStages(i) : k <= j].result.text

\* the grammar stage was attempted and returned a failure
GrammarFailed ==
    \E i \in 1..Len(plStages) :
        plStages[i].stage = "grammar" /\ ~plStages[i].result.success

----------------------------------------------------------------------------
(* The health check *)

HealthStatuses == { "ok", "auth", "rate_limit", "degraded", "unreachable" }

HealthRequests == { i \in 1..Len(hcLog) : hcLog[i].ev = "request" }

\* the status the claim gives for an HTTP status
ClaimedStatus(status) ==
    CASE status = 200 -> "ok"
      [] status = 401 -> "auth"
      [] status = 429 -> "rate_limit"
      [] status >= 500 -> "degraded"
      [] OTHER -> "unreachable"

\* the colour the claim gives for a status
ClaimedColour(status) ==
    CASE status = "ok" -> "green"
      [] status \in { "rate_limit", "degraded" } -> "yellow"
      [] status \in { "auth", "unreachable" } -> "red"

\* C22: checkOpenAIHealth never rejects and resolves to exactly one of the
\* five statuses: auth with no request sent when no key is set; otherwise
\* one request, ok for 200, auth for 401, rate_limit for 429, degraded for
\* 500 and above, unreachable for every other status, for a timeout and for
\* a network error.  The indicator is green only for ok, yellow for
\* rate_limit and degraded, red for auth and unreachable.
C22_HealthStatus ==
    /\ hcPc \in { "idle", "fetching", "done" }
    /\ Cardinality(HealthRequests) <= 1
    /\ OPENAI_API_KEY = "" => HealthRequests = {}
    /\ hcPc = "fetching" => Len(hcLog) = 1 /\ hcLog[1].ev = "request"
    /\ hcPc = "done" =>
           /\ hcResult.status \in HealthStatuses
           /\ IF OPENAI_API_KEY = ""
              THEN hcResult.status = "auth" /\ hcLog = << >>
              ELSE /\ Len(hcLog) = 2 /\ hcLog[1].ev = "request"
                   /\ hcLog[1].info = OPENAI_API_KEY
                   /\ IF hcLog[2].ev = "response"
                      THEN hcResult.status = ClaimedStatus(hcLog[2].status)
                      ELSE hcResult.status = "unreachable"
    /\ openaiHealth # NoHealth =>
           /\ openaiHealth.status \in HealthStatuses
           /\ HealthDot(openaiHealth.status) = ClaimedColour(openaiHealth.status)
    /\ HealthDot(openaiHealth.status) = "green" <=> openaiHealth.status = "ok"

\* C22 witness: the indicator is yellow after a 503, and a second check has
\* ended unreachable on a timeout
C22_Witness ==
    /\ openaiHealth.status = "degraded" /\ openaiHealth.code = 503
    /\ HealthDot(openaiHealth.status) = "yellow"
    /\ hcPc = "done" /\ hcLog[2].info = "AbortError"
    /\ hcResult.status = "unreachable" /\ hcResult.detail = "timeout"

----------------------------------------------------------------------------
(* The quota gate of fixPunctuation *)

QuotaSignatures == { "429", "quota", "RESOURCE_EXHAUSTED" }

\* the message of the tier-1 error carries a quota signature
HasQuotaSignature == \E sig \in QuotaSignatures : Includes(fpErr.msg, sig)

\* a fallback provider was called or sent a request
FallbackContacted == \E i \in LogIdx : log[i].tier \in { "groq", "deepseek" }

----------------------------------------------------------------------------
(* Saving the recording *)

\* the running or last handleTranscription call got a transcript
Transcribed == appRaw # UNDEF

\* C24: a handleTranscription call hands at most one text to saveRecording:
\* none before the punctuation run has settled, and exactly one from then on,
\* whether fixPunctuation resolved with success, resolved with a failure or
\* rejected; the text is the punctuated one if and only if the result has
\* success = true and a non-empty text, else the raw transcript; a call whose
\* transcription failed hands over none.
C24_SavedOnce ==
    /\ Len(appSaved) <= 1
    /\ appPc \in { "transcribing", "copying raw", "punctuating", "copying" } => appSaved = << >>
    /\ appPc = "saving" =>
           /\ Len(appSaved) = 1
           /\ IF fpPc = "done" /\ fpResult.success /\ fpResult.text # UNDEF /\ fpResult.text # ""
              THEN appSaved[1] = fpResult.text
              ELSE appSaved[1] = appRaw
    /\ (appPc = "idle" /\ Transcribed) => Len(appSaved) = 1
    /\ ~Transcribed => appSaved = << >>

\* C24 witness: the transcription succeeded, the punctuation run ended in a
\* failure result, and the raw transcript was handed to saveRecording once
C24_Witness ==
    /\ appPc = "saving" /\ fpPc = "done" /\ ~fpResult.success
    /\ appRaw = " a b " /\ appSaved = << " a b " >>

----------------------------------------------------------------------------
(* The recorder and overlapping transcriptions *)

\* the start whose transcript the text is, raw or punctuated
TextEpoch(text) == CHOOSE e \in 0..9 : SubSeq(text, 2, 2) = Digit(e)

\* C25: the text shown is empty or belongs to the most recently started
\* recording or transcription; no result of an earlier transcription
\* overwrites it.
C25_LatestText == appText # "" => TextEpoch(appText) = uiEpoch

\* C26: at most one MediaRecorder is recording, it is the one held by
\* mediaRecorderRef, and one is recording only while the status is RECORDING.
C26_OneRecorder ==
    /\ Cardinality(uiRecorders) <= 1
    /\ uiRecorders \subseteq { mediaRecorderRef }
    /\ uiRecorders # {} => appStatus = "RECORDING"

\* a step of the punctuation run of some call, or of its saving
BackgroundStep ==
    \E e \in Epochs :
        /\ uiRuns[e].pc \in { "copying raw", "punctuating", "copying", "saving" }
        /\ uiRuns'[e] # uiRuns[e]

\* C27: once the status is PROCESSING it eventually is COMPLETED, or IDLE
\* with an error set, given that transcriptions settle and stop events are
\* dispatched; transcribeAudio resolving sets COMPLETED in the same step,
\* before fixPunctuation is called; and no step of a punctuation run or of
\* saving changes the status.
C27_ProcessingEnds ==
    /\ (appStatus = "PROCESSING") ~>
           (appStatus = "COMPLETED" \/ (appStatus = "IDLE" /\ appError # UNDEF))
    /\ [][\A e \in Epochs :
              (uiRuns[e].pc = "transcribing" /\ uiRuns'[e].pc = "copying raw")
                  => appStatus' = "COMPLETED"]_vars
    /\ [][BackgroundStep => appStatus' = appStatus]_vars

\* C27 witness: the status is COMPLETED while the punctuation run of the call
\* has failed and its saving has not settled
C27_Witness ==
    /\ appStatus = "COMPLETED"
    /\ \E e \in Epochs : uiRuns[e].pc = "saving" /\ ~uiRuns[e].result.success

----------------------------------------------------------------------------
(* The recording store *)

\* C28: a recording removed by deleteRecording or clearAllRecordings never
\* reappears in the store (the key generator never hands an id out twice, so
\* only the put of an updateRecording call that read the record before the
\* removal can bring it back)
C28_RemovedStaysRemoved == \A id \in dbRemoved : db[id] = Absent

\* call c takes a step
CallSteps(c) == dbCalls'[c] # dbCalls[c]

\* C29: updateRecording on an id that is not in the store rejects with the
\* not-found error and writes nothing; the put of an updateRecording call
\* stores, under the id of the call, the record the call read with the given
\* text and mode laid over it, whatever id the update fields carry, and
\* changes no other record
C29_UpdateRecording ==
    [][\A c \in Calls : (dbCalls[c].op = "update" /\ CallSteps(c)) =>
           LET call == dbCalls[c]
               id   == dbCalls[c].id IN
           /\ (call.pc = "reading" /\ db[id] = Absent) =>
                  (dbCalls'[c].pc = "rejected" /\ db' = db)
           /\ dbCalls'[c].error = NotFound =>
                  (call.pc = "reading" /\ db[id] = Absent /\ db' = db)
           /\ dbCalls'[c].pc = "writing" =>
                  (call.pc = "reading" /\ dbCalls'[c].existing = db[id] /\ db' = db)
           /\ (call.pc = "writing" /\ dbCalls'[c].pc = "done") =>
                  /\ db'[id].id = id
                  /\ db'[id].text = IF call.updates.text # UNDEF
                                    THEN call.updates.text ELSE call.existing.text
                  /\ db'[id].mode = IF call.updates.mode # UNDEF
                                    THEN call.updates.mode ELSE call.existing.mode
                  /\ \A j \in Ids \ { id } : db'[j] = db[j]]_vars

\* C29 witness: one updateRecording call whose fields carried another id has
\* stored its record under its own id, and another was rejected as not found
C29_Witness ==
    \E c, d \in Calls :
        /\ dbCalls[c].op = "update" /\ dbCalls[c].pc = "done"
        /\ dbCalls[c].updates.id \notin { NoId, dbCalls[c].id }
        /\ db[dbCalls[c].id].id = dbCalls[c].id
        /\ db[dbCalls[c].id].text = "b"
        /\ db[dbCalls[c].updates.id] = Absent
        /\ dbCalls[d].op = "update" /\ dbCalls[d].error = NotFound

----------------------------------------------------------------------------
(* The transports of chatCompletion *)

\* the requests the chatCompletion call of tier has sent to the API: an IPC
\* request that got no answer is not counted as sent
RequestsSent(tier) ==
    { i \in LogIdx :
          /\ log[i].tier = tier /\ log[i].ev = "request"
          /\ ~ \E j \in LogIdx :
                   /\ j = i + 1 /\ log[j].tier = tier
                   /\ log[j].ev = "warn" /\ log[j].via = "no response" }

\* C30: one chatCompletion call sends its request to the API at most once over
\* all transports: after the IPC transport brought back an error response no
\* request leaves through browser fetch, and a call without an API key sends
\* no request
C30_RequestOnce ==
    \A t \in { "groq", "deepseek" } :
        /\ Cardinality(RequestsSent(t)) <= 1
        /\ \A i, j \in LogIdx :
               (/\ i < j /\ log[i].tier = t /\ log[j].tier = t
                /\ log[i].ev = "warn" /\ log[i].via = "error response")
                   => log[j].ev # "request"
        /\ (\E i \in LogIdx : log[i].tier = t /\ log[i].ev = "call" /\ log[i].key = "")
               => ~Has(t, "request")

====
